---------------------------- MODULE Spec2Model ----------------------------
(***************************************************************************)
(* A model of the school-portal intermediary: the Flask application        *)
(* (src/app.py: session registry, login rate limiter, request handlers)    *)
(* and the Librus client (src/librus_api.py: login handshake, attendance   *)
(* summarisation).                                                         *)
(*                                                                         *)
(* Conventions.  Python's None is the record None.  Text that the source   *)
(* writes with Polish diacritics is transliterated to ASCII in string      *)
(* literals.  Wall-clock time (time.time()) is the variable now, in        *)
(* seconds; it only moves forward, in steps of a fixed size.                *)
(***************************************************************************)
EXTENDS Integers, Sequences, FiniteSets, TLC

(***************************************************************************)
(* Program constants (src/app.py).                                         *)
(***************************************************************************)
SESSION_TIMEOUT == 15 * 60

MAX_LOGIN_ATTEMPTS == 5

LOGIN_WINDOW == 300

(***************************************************************************)
(* Bounds of the model.                                                    *)
(***************************************************************************)
\* under Spec the clock advances in multiples of SessionStep seconds and
\* stops at MaxTime
SessionStep == 300

MaxTime == 1200

\* under SpecLogin and SpecLimiter it advances in multiples of TimeStep
TimeStep == 150

\* how many uuid4 tokens the model can hand out
MaxTokens == 2

None == [none |-> TRUE]

Tokens == {"tok1", "tok2", "tok3"}

\* the client origins (get_client_ip) that send requests
Origins == {"ip1", "ip2"}

\* the tokens uuid4 produces in this model
TokenPool == {t \in Tokens : \E i \in 1..MaxTokens : t = <<"tok1", "tok2", "tok3">>[i]}

VARIABLES
    sessions,        \* app.py: sessions, token -> {cookies, user, created}
    login_attempts,  \* app.py: login_attempts, ip -> list of timestamps
    now,             \* the wall clock read by time.time()
    issued,          \* history: every token ever issued -> what was stored
    revoked,         \* history: tokens a logout request has named
    resp,            \* the last handler's response, with what it did
    input,           \* what the school register holds for the summary
    threads          \* the requests that worker threads are in the middle of

srvVars == <<sessions, login_attempts, now, issued, revoked, resp>>

-----------------------------------------------------------------------------
(***************************************************************************)
(* LibrusAPI.login: the handshake against the upstream identity provider.  *)
(* An upstream behaviour `up` says how each request would be answered:     *)
(*   init      "ok" | "exc"             GET  OAuth/Authorization           *)
(*   postExc, postMarker, postStatus    POST OAuth/Authorization           *)
(*   grant     "exc" | a status         GET  OAuth/Authorization/Grant     *)
(*   jar       the cookies the jar holds for the data-API host             *)
(*   tokenInfo "exc" | "non200" | "noid" | "id"   GET Auth/TokenInfo       *)
(*   userInfo  "exc" | a status         GET  Auth/UserInfo/<id>            *)
(*   me        "exc" | "non200" | "empty" | "noMe" | "account"   GET Me    *)
(*   account   the Account record of the Me body                           *)
(***************************************************************************)
Accounts ==
    { [firstName |-> "Jan", lastName |-> "Kowalski", login |-> "1234567u"],
      [firstName |-> "Ewa", lastName |-> "Nowak", login |-> "7654321u"] }

\* me.get("Me", {}).get("Account", {}) of a body without them: every .get is None
NoAccount == [firstName |-> "None", lastName |-> "None", login |-> "None"]

\* the cookie sets the jar may hold for the data-API host
Jars == {[jar |-> "cookiesA"], [jar |-> "cookiesB"]}

Upstreams ==
    [ init : {"ok", "exc"},
      postExc : BOOLEAN, postMarker : BOOLEAN, postStatus : {"200", "401"},
      grant : {"exc", "200", "403"},
      jar : Jars,
      tokenInfo : {"exc", "non200", "noid", "id"},
      userInfo : {"exc", "200", "404"},
      me : {"exc", "non200", "empty", "noMe", "account"},
      account : Accounts ]

FailResult(err, reqs) ==
    [success |-> FALSE, error |-> err, cookies |-> None, user |-> None,
     requests |-> reqs]

\* an activation that takes any end of the UserInfo request for a 200
ActivateIgnoresUserInfo(up) ==
    IF up.tokenInfo \in {"exc", "non200", "noid"}
    THEN [ok |-> FALSE, requests |-> <<"GET TokenInfo">>]
    ELSE [ok |-> TRUE, requests |-> <<"GET TokenInfo", "GET UserInfo">>]

\* an activation that asks for UserInfo whatever TokenInfo gave
ActivateAlwaysBoth(up) ==
    [ok |-> (up.tokenInfo = "id" /\ up.userInfo = "200"),
     requests |-> <<"GET TokenInfo", "GET UserInfo">>]

\* _activate_api_access: TRUE iff TokenInfo is 200 with a UserIdentifier and
\* UserInfo is 200; every exception is swallowed and gives FALSE.
\* Returns the verdict and the requests it issued.
activate_api_access(up) ==
    IF up.tokenInfo \in {"exc", "non200", "noid"}
    THEN [ok |-> FALSE, requests |-> <<"GET TokenInfo">>]
    ELSE [ok |-> (up.userInfo = "200"),
          requests |-> <<"GET TokenInfo", "GET UserInfo">>]

\* _get_data_with_session(session, "Me"): the parsed body on 200, else None
\* (exceptions swallowed).  "empty" is the body {}, "noMe" a body without
\* the Me record, "account" a body with Me.Account.
get_data_with_session(up) ==
    IF up.me \in {"exc", "non200"} THEN None
    ELSE [body |-> up.me, account |-> up.account]

\* `if me:` -- None and the empty dict are falsy
Truthy(me) == me # None /\ me.body # "empty"

\* login without the check of the activation's verdict
LoginNoActivationCheck(up) ==
    LET r3 == <<"GET Authorization", "POST Authorization", "GET Grant">>
        r6 == Append(r3 \o activate_api_access(up).requests, "GET Me")
        me == get_data_with_session(up)
    IN  IF up.init = "exc" THEN FailResult("exception", <<"GET Authorization">>)
        ELSE IF up.postExc THEN FailResult("exception", SubSeq(r3, 1, 2))
        ELSE IF up.postMarker \/ up.postStatus = "401"
             THEN FailResult("Nieprawidlowy login lub haslo", SubSeq(r3, 1, 2))
        ELSE IF up.grant = "exc" THEN FailResult("exception", r3)
        ELSE IF up.grant # "200" THEN FailResult("Grant failed", r3)
        ELSE IF Truthy(me)
             THEN [success |-> TRUE, error |-> "",
                   cookies |-> up.jar,
                   user |-> IF me.body = "account" THEN me.account
                            ELSE NoAccount,
                   requests |-> r6]
        ELSE FailResult("Could not verify login", r6)

login(up) ==
    LET r1 == <<"GET Authorization">>
        r2 == Append(r1, "POST Authorization")
        r3 == Append(r2, "GET Grant")
        act == activate_api_access(up)
        r5 == r3 \o act.requests
        r6 == Append(r5, "GET Me")
        me == get_data_with_session(up)
    IN  IF up.init = "exc" THEN FailResult("exception", r1)
        ELSE IF up.postExc THEN FailResult("exception", r2)
        ELSE IF up.postMarker \/ up.postStatus = "401"
             THEN FailResult("Nieprawidlowy login lub haslo", r2)
        ELSE IF up.grant = "exc" THEN FailResult("exception", r3)
        ELSE IF up.grant # "200" THEN FailResult("Grant failed", r3)
        ELSE IF ~act.ok THEN FailResult("API activation failed", r5)
        ELSE IF Truthy(me)
             THEN [success |-> TRUE, error |-> "",
                   cookies |-> up.jar,
                   user |-> IF me.body = "account" THEN me.account
                            ELSE NoAccount,
                   requests |-> r6]
        ELSE FailResult("Could not verify login", r6)

\* The handshake stops at its first failing step and never looks at the
\* answers of later requests, so a handler draws its upstream behaviour from
\* those that leave the unread answers at a fixed value.
DefaultUp ==
    [ init |-> "ok", postExc |-> FALSE, postMarker |-> FALSE,
      postStatus |-> "200", grant |-> "200", jar |-> [jar |-> "cookiesA"],
      tokenInfo |-> "id", userInfo |-> "200", me |-> "account",
      account |-> [firstName |-> "Jan", lastName |-> "Kowalski",
                   login |-> "1234567u"] ]

\* the fields of an upstream behaviour in the order the handshake reads them
UpFields ==
    << {"init"}, {"postExc"}, {"postMarker", "postStatus"}, {"grant"},
       {"jar"}, {"tokenInfo"}, {"userInfo"}, {"me"}, {"account"} >>

\* does the handshake go on after reading the fields of group k
PassesGroup(up, k) ==
    CASE k = 1 -> up.init = "ok"
      [] k = 2 -> ~up.postExc
      [] k = 3 -> ~up.postMarker /\ up.postStatus = "200"
      [] k = 4 -> up.grant = "200"
      [] k = 6 -> up.tokenInfo = "id"
      [] k = 7 -> up.userInfo = "200"
      [] k = 8 -> up.me = "account"
      [] OTHER -> TRUE

LoginUpstreams ==
    { up \in Upstreams :
        \A k \in 1..Len(UpFields) :
            (\E j \in 1..(k-1) : ~PassesGroup(up, j))
                => \A f \in UpFields[k] : up[f] = DefaultUp[f] }

-----------------------------------------------------------------------------
(***************************************************************************)
(* Session registry (app.py: sessions, cleanup_old_sessions, get_session). *)
(***************************************************************************)
\* a dict without key k
DictDel(d, k) == [x \in DOMAIN d \ {k} |-> d[x]]

\* a dict with d[k] = v
DictPut(d, k, v) == [x \in DOMAIN d \cup {k} |-> IF x = k THEN v ELSE d[x]]

\* expiry one second early: >= for >
ExpiredAtTimeout(created, t) == t - created >= SESSION_TIMEOUT

\* is a session created at `created` expired at time t
Expired(created, t) == t - created > SESSION_TIMEOUT

\* a sweep that renews the creation time of the sessions it keeps
CleanupRefreshing(S, t) ==
    [k \in {x \in DOMAIN S : ~Expired(S[x].created, t)} |->
        [S[k] EXCEPT !.created = t]]

\* cleanup_old_sessions() with time.time() = t
cleanup_old_sessions(S, t) ==
    [k \in {x \in DOMAIN S : ~Expired(S[x].created, t)} |-> S[k]]

\* get_session as a plain lookup, with no sweep and no check of the age
GetSessionNoExpiry(S, token, t1, t2) ==
    IF token \in DOMAIN S THEN [ret |-> S[token], sessions |-> S]
    ELSE [ret |-> None, sessions |-> S]

\* get_session(token): the sweep reads the clock at t1, the check of the
\* session found reads it again at t2 >= t1.  Gives the value returned and
\* the registry left behind.
get_session(S, token, t1, t2) ==
    LET swept == cleanup_old_sessions(S, t1)
    IN  IF token \in DOMAIN swept
        THEN IF Expired(swept[token].created, t2)
             THEN [ret |-> None, sessions |-> DictDel(swept, token)]
             ELSE [ret |-> swept[token], sessions |-> swept]
        ELSE [ret |-> None, sessions |-> swept]

(***************************************************************************)
(* Rate limiter (app.py: check_rate_limit, record_login_attempt).          *)
(***************************************************************************)
\* the prune keeping an attempt exactly one window old: <= for <
RECURSIVE PruneInclusive(_, _)
PruneInclusive(log, t) ==
    IF log = <<>> THEN <<>>
    ELSE IF t - Head(log) <= LOGIN_WINDOW
         THEN <<Head(log)>> \o PruneInclusive(Tail(log), t)
         ELSE PruneInclusive(Tail(log), t)

\* [t for t in log if current_time - t < LOGIN_WINDOW]
RECURSIVE Prune(_, _)
Prune(log, t) ==
    IF log = <<>> THEN <<>>
    ELSE IF t - Head(log) < LOGIN_WINDOW
         THEN <<Head(log)>> \o Prune(Tail(log), t)
         ELSE Prune(Tail(log), t)

\* the limit one attempt later: > for >=
CheckRateLimitStrict(log, t) ==
    [allowed |-> ~(Len(Prune(log, t)) > MAX_LOGIN_ATTEMPTS), log |-> Prune(log, t)]

\* check_rate_limit(ip) with time.time() = t: the verdict and the pruned log
check_rate_limit(log, t) ==
    LET kept == Prune(log, t)
    IN  [allowed |-> ~(Len(kept) >= MAX_LOGIN_ATTEMPTS), log |-> kept]

\* record_login_attempt(ip) with time.time() = t
record_login_attempt(log, t) == Append(log, t)

-----------------------------------------------------------------------------
(***************************************************************************)
(* Text.  A Python str is a sequence of characters; a character is a       *)
(* one-letter string, a Polish letter is named ("o_acute" is o with an     *)
(* acute accent).  CharOrder lists the characters by code point.           *)
(***************************************************************************)
CharOrder ==
    << " ",
       "A", "B", "C", "D", "E", "F", "G", "H", "I", "J", "K", "L", "M",
       "N", "O", "P", "Q", "R", "S", "T", "U", "V", "W", "X", "Y", "Z",
       "a", "b", "c", "d", "e", "f", "g", "h", "i", "j", "k", "l", "m",
       "n", "o", "p", "q", "r", "s", "t", "u", "v", "w", "x", "y", "z",
       "O_acute", "o_acute", "c_acute", "S_acute", "s_acute",
       "Z_acute", "z_acute" >>

\* the place of a character in the order of code points
Code(c) == CHOOSE i \in 1..Len(CharOrder) : CharOrder[i] = c

UpperChars ==
    << "A", "B", "C", "D", "E", "F", "G", "H", "I", "J", "K", "L", "M",
       "N", "O", "P", "Q", "R", "S", "T", "U", "V", "W", "X", "Y", "Z",
       "O_acute", "S_acute", "Z_acute" >>

LowerChars ==
    << "a", "b", "c", "d", "e", "f", "g", "h", "i", "j", "k", "l", "m",
       "n", "o", "p", "q", "r", "s", "t", "u", "v", "w", "x", "y", "z",
       "o_acute", "s_acute", "z_acute" >>

\* str.lower(), character by character
LowerChar(c) ==
    IF \E i \in 1..Len(UpperChars) : UpperChars[i] = c
    THEN LowerChars[CHOOSE i \in 1..Len(UpperChars) : UpperChars[i] = c]
    ELSE c

StrLower(str) == [i \in 1..Len(str) |-> LowerChar(str[i])]

\* sub in str
StrContains(str, sub) ==
    \E i \in 1..(Len(str) - Len(sub) + 1) : SubSeq(str, i, i + Len(sub) - 1) = sub

\* a < b for two str: the first differing character decides, a proper
\* prefix is smaller
StrLess(a, b) ==
    \E k \in 1..Len(b) :
        /\ \A i \in 1..(k-1) : i <= Len(a) /\ a[i] = b[i]
        /\ \/ k = Len(a) + 1
           \/ k <= Len(a) /\ Code(a[k]) < Code(b[k])

\* str.strip() of the blanks
RECURSIVE StrStrip(_)
StrStrip(str) ==
    IF str = <<>> THEN str
    ELSE IF Head(str) = " " THEN StrStrip(Tail(str))
    ELSE IF str[Len(str)] = " " THEN StrStrip(SubSeq(str, 1, Len(str) - 1))
    ELSE str

\* the literals of the source
S_sp == <<"s", "p">>

S_ob == <<"o", "b">>

S_u == <<"u">>

S_nu == <<"n", "u">>

S_us == <<"u", "s">>

S_nb == <<"n", "b">>

\* the late marker, "spozn" with o-acute and z-acute
S_spozn == <<"s", "p", "o_acute", "z_acute", "n">>

\* "Nieznany", the label of an unresolved subject
S_Nieznany == <<"N", "i", "e", "z", "n", "a", "n", "y">>

-----------------------------------------------------------------------------
(***************************************************************************)
(* LibrusAPI.get_attendances: the attendance summary                       *)
(* (librus_api.py, lines 166-271).                                         *)
(*                                                                         *)
(* A dict is a function; d.get(k, default) is DictGet.  An attendance      *)
(* type descriptor is [isPresence, name, short]; the descriptor of an      *)
(* unknown type id is the empty dict NoType, of which every .get gives     *)
(* its default.                                                            *)
(***************************************************************************)
DictGet(d, k, default) == IF k \in DOMAIN d THEN d[k] ELSE default

NoType == [unknown |-> TRUE]

\* the categorisation of one record by its type descriptor with the first
\* two tests in the other order
CategorizePresentFirst(att_type) ==
    LET short == StrLower(DictGet(att_type, "short", <<>>))
        is_presence == DictGet(att_type, "isPresence", FALSE)
    IN  IF is_presence \/ short = S_ob THEN "present"
        ELSE IF short = S_sp
                \/ StrContains(StrLower(DictGet(att_type, "name", <<>>)), S_spozn)
             THEN "late"
        ELSE IF short \in {S_u, S_nu, S_us} THEN "excused"
        ELSE IF short = S_nb THEN "absent"
        ELSE "other"

\* lines 206-228: the category of one record, by its type descriptor
Categorize(att_type) ==
    LET short == StrLower(DictGet(att_type, "short", <<>>))
        is_presence == DictGet(att_type, "isPresence", FALSE)
    IN  IF short = S_sp
           \/ StrContains(StrLower(DictGet(att_type, "name", <<>>)), S_spozn)
        THEN "late"
        ELSE IF is_presence \/ short = S_ob THEN "present"
        ELSE IF short \in {S_u, S_nu, S_us} THEN "excused"
        ELSE IF short = S_nb THEN "absent"
        ELSE "other"

\* int(n / d * 100): the percentage cut off instead of rounded
PctTruncated(n, d) == (100 * n) \div d

\* round(n / d * 100) for 0 <= n <= d, d > 0.  Python rounds the float to the
\* nearest integer, a tie to the even one; the float n / d * 100 is a tie
\* exactly when the fraction is one for every d below 40 (above, the float
\* may miss a tie by one unit in the last place, e.g. 23 / 40).
PyRoundPct(n, d) ==
    LET q == (100 * n) \div d
        r == (100 * n) % d
    IN  IF 2 * r < d THEN q
        ELSE IF 2 * r > d THEN q + 1
        ELSE IF q % 2 = 0 THEN q ELSE q + 1

\* stats["present"] + stats["absent"] + stats["late"] + stats["excused"]
Total(st) == st.present + st.absent + st.late + st.excused

\* lines 241-244: the overall percentage
OverallPercentage(st) ==
    IF Total(st) > 0 THEN PyRoundPct(st.present + st.late, Total(st)) ELSE 0

\* lines 249-251: the percentage of one subject
SubjectPercentage(st) ==
    IF Total(st) > 0 THEN PyRoundPct(st.present + st.late, Total(st)) ELSE 100

ZeroStats == [present |-> 0, absent |-> 0, late |-> 0, excused |-> 0, other |-> 0]

ZeroSubjectStats == [present |-> 0, absent |-> 0, late |-> 0, excused |-> 0]

\* a counting that leaves out the records of category other
BumpKnownOnly(st, category) ==
    IF category = "other" THEN st ELSE [st EXCEPT ![category] = @ + 1]

\* stats[category] += 1
Bump(st, category) == [st EXCEPT ![category] = @ + 1]

\* lines 193-200: the type descriptor, subject name and teacher of a record
AttType(att, tables) == DictGet(tables.types, att.Type, NoType)

\* lessons.get(lesson_id) is None for an unknown lesson, and None is the id
\* of no subject
SubjectName(att, tables) ==
    IF att.Lesson \in DOMAIN tables.lessons
    THEN DictGet(tables.subjects, tables.lessons[att.Lesson], S_Nieznany)
    ELSE S_Nieznany

TeacherName(att, tables) ==
    LET teacher == DictGet(tables.teachers, att.AddedBy,
                           [FirstName |-> <<>>, LastName |-> <<>>])
    IN  StrStrip(teacher.FirstName \o <<" ">> \o teacher.LastName)

\* lines 192-238: the loop over the records; acc is [result, stats, by_subject]
RECURSIVE AttLoop(_, _, _)
AttLoop(atts, tables, acc) ==
    IF atts = <<>> THEN acc
    ELSE LET att == Head(atts)
             att_type == AttType(att, tables)
             subject_name == SubjectName(att, tables)
             category == Categorize(att_type)
             by0 == IF subject_name \in DOMAIN acc.by_subject
                    THEN acc.by_subject
                    ELSE DictPut(acc.by_subject, subject_name, ZeroSubjectStats)
             by1 == IF category = "other" THEN by0
                    ELSE [by0 EXCEPT ![subject_name] = Bump(@, category)]
             entry == [subject |-> subject_name,
                       type |-> DictGet(att_type, "name", <<>>),
                       short |-> DictGet(att_type, "short", <<>>),
                       category |-> category,
                       teacher |-> TeacherName(att, tables)]
         IN  AttLoop(Tail(atts), tables,
                     [result |-> Append(acc.result, entry),
                      stats |-> Bump(acc.stats, category),
                      by_subject |-> by1])

\* the smallest str of a non-empty set
MinStr(names) == CHOOSE a \in names : \A b \in names \ {a} : StrLess(a, b)

\* sorted(by_subject.items()): the subject names in ascending order
RECURSIVE SortedKeys(_)
SortedKeys(names) ==
    IF names = {} THEN <<>>
    ELSE <<MinStr(names)>> \o SortedKeys(names \ {MinStr(names)})

\* one step of a descending sort that puts an entry before its equals
InsertBeforeEquals(list, x) ==
    LET k == Cardinality({i \in 1..Len(list) : list[i].percentage > x.percentage})
    IN  SubSeq(list, 1, k) \o <<x>> \o SubSeq(list, k + 1, Len(list))

\* one step of the stable descending sort: x goes behind every entry whose
\* percentage is not smaller
InsertDesc(list, x) ==
    LET k == Cardinality({i \in 1..Len(list) : list[i].percentage >= x.percentage})
    IN  SubSeq(list, 1, k) \o <<x>> \o SubSeq(list, k + 1, Len(list))

\* line 263: subjects_list.sort(key=percentage, reverse=True); list.sort is
\* stable, also with reverse=True
RECURSIVE SortByPercentageDesc(_, _)
SortByPercentageDesc(list, sorted) ==
    IF list = <<>> THEN sorted
    ELSE SortByPercentageDesc(Tail(list), InsertDesc(sorted, Head(list)))

\* lines 247-260: the per-subject list, in the order of the names
SubjectsList(by_subject) ==
    LET names == SortedKeys(DOMAIN by_subject)
    IN  [i \in 1..Len(names) |->
            [name |-> names[i],
             present |-> by_subject[names[i]].present,
             excused |-> by_subject[names[i]].excused,
             absent |-> by_subject[names[i]].absent,
             late |-> by_subject[names[i]].late,
             percentage |-> SubjectPercentage(by_subject[names[i]])]]

\* lines 174-271: the summary of a fetched attendance list
Summarize(atts, tables) ==
    LET acc == AttLoop(atts, tables,
                       [result |-> <<>>, stats |-> ZeroStats, by_subject |-> <<>>])
    IN  [attendances |-> acc.result,
         stats |-> acc.stats,
         percentage |-> OverallPercentage(acc.stats),
         total |-> Total(acc.stats),
         bySubject |-> SortByPercentageDesc(SubjectsList(acc.by_subject), <<>>)]

-----------------------------------------------------------------------------
(***************************************************************************)
(* LibrusAPI.get_data and the composite fetchers (librus_api.py, lines     *)
(* 104-164).                                                               *)
(*                                                                         *)
(* An answer says how the register answers one GET: exc (the request       *)
(* raises: no connection, timeout), a status, parses (resp.json() does not *)
(* raise) and the parsed body.  A body is a dict, given by its keys        *)
(* ("list" stands for the key of the resource's list, "Attendances",       *)
(* "Subjects", ...), the list and the value of "error".  What get_data     *)
(* returns is NoneData (Python's None) or such a dict.                     *)
(***************************************************************************)
NoKeys == {}

NoneData == [kind |-> "None", keys |-> NoKeys, list |-> <<>>, error |-> ""]

DictData(keys, list, error) ==
    [kind |-> "dict", keys |-> keys, list |-> list, error |-> error]

\* {"error": detail}
ErrorData(detail) == DictData({"error"}, <<>>, detail)

\* the cookies of a session whose jar held none for the data-API host
EmptyJar == [jar |-> "empty"]

\* `if data`, `if not self.cookies`: None and the empty dict are falsy
IsTruthy(data) == data.kind = "dict" /\ data.keys # NoKeys

\* get_data that tells a 401 from no other status
GetDataNo401(cookies, ans) ==
    IF cookies = EmptyJar THEN NoneData
    ELSE IF ans.exc THEN ErrorData("exception")
    ELSE IF ans.status = "200"
         THEN IF ans.parses THEN DictData(ans.body.keys, ans.body.list, ans.body.error)
              ELSE ErrorData("exception")
    ELSE NoneData

\* lines 104-118.  str(e) of a raised exception is "exception".
get_data(cookies, ans) ==
    IF cookies = EmptyJar THEN NoneData
    ELSE IF ans.exc THEN ErrorData("exception")
    ELSE IF ans.status = "200"
         THEN IF ans.parses THEN DictData(ans.body.keys, ans.body.list, ans.body.error)
              ELSE ErrorData("exception")
    ELSE IF ans.status = "401" THEN ErrorData("session_expired")
    ELSE NoneData

\* what a composite fetcher gives: a dict, or the KeyError of x["Id"]
Fetched(d) == [raised |-> FALSE, dict |-> d]

KeyError == [raised |-> TRUE, dict |-> <<>>]

\* `data and "Subjects" in data`
HasList(data) == IsTruthy(data) /\ "list" \in data.keys

\* is there an entry that lacks one of the keys the comprehension indexes
LacksKey(list, keys) == \E i \in 1..Len(list) : ~(keys \subseteq DOMAIN list[i])

\* the ids of the entries of a list
Ids(list) == {list[i].Id : i \in 1..Len(list)}

\* a dict comprehension keeps the last entry of a key
LastWith(list, id) ==
    list[CHOOSE i \in 1..Len(list) :
            /\ list[i].Id = id
            /\ \A j \in (i+1)..Len(list) : list[j].Id # id]

\* lines 127-132
get_subjects(data) ==
    IF HasList(data)
    THEN IF LacksKey(data.list, {"Id", "Name"}) THEN KeyError
         ELSE Fetched([id \in Ids(data.list) |-> LastWith(data.list, id).Name])
    ELSE Fetched(<<>>)

\* lines 134-144
get_teachers(data) ==
    IF HasList(data)
    THEN IF LacksKey(data.list, {"Id"}) THEN KeyError
         ELSE Fetched([id \in Ids(data.list) |->
                  [FirstName |-> DictGet(LastWith(data.list, id), "FirstName", <<>>),
                   LastName |-> DictGet(LastWith(data.list, id), "LastName", <<>>)]])
    ELSE Fetched(<<>>)

\* lines 146-151: x["Subject"]["Id"]
get_lessons(data) ==
    IF HasList(data)
    THEN IF \/ LacksKey(data.list, {"Id", "Subject"})
            \/ \E i \in 1..Len(data.list) : "Id" \notin DOMAIN data.list[i].Subject
         THEN KeyError
         ELSE Fetched([id \in Ids(data.list) |-> LastWith(data.list, id).Subject.Id])
    ELSE Fetched(<<>>)

\* lines 153-164
get_attendance_types(data) ==
    IF HasList(data)
    THEN IF LacksKey(data.list, {"Id"}) THEN KeyError
         ELSE Fetched([id \in Ids(data.list) |->
                  [isPresence |-> DictGet(LastWith(data.list, id), "IsPresenceKind", FALSE),
                   name |-> DictGet(LastWith(data.list, id), "Name", <<>>),
                   short |-> DictGet(LastWith(data.list, id), "Short", <<>>)]])
    ELSE Fetched(<<>>)

\* what LibrusAPI.get_attendances and get_grades give: {"error": ...}, a
\* summary, or an exception that leaves the call
ErrorResult(e) == [kind |-> "error", error |-> e, summary |-> None]

SummaryResult(sm) == [kind |-> "summary", error |-> "", summary |-> sm]

Raises == [kind |-> "raise", error |-> "KeyError", summary |-> None]

\* get_attendances that answers every failure of the primary fetch alike
AttendancesAlwaysNoData(cookies, ans) ==
    ErrorResult("no_data")

\* LibrusAPI.get_attendances, lines 166-271.  ans gives the answer of the
\* register to the GET of each resource.
api_get_attendances(cookies, ans) ==
    LET attendances_data == get_data(cookies, ans.Attendances)
        subjects == get_subjects(get_data(cookies, ans.Subjects))
        teachers == get_teachers(get_data(cookies, ans.Users))
        lessons == get_lessons(get_data(cookies, ans.Lessons))
        types == get_attendance_types(get_data(cookies, ans.Types))
    IN  IF ~IsTruthy(attendances_data) \/ "list" \notin attendances_data.keys
        THEN IF IsTruthy(attendances_data) /\ "error" \in attendances_data.keys
             THEN ErrorResult(attendances_data.error)
             ELSE ErrorResult("no_data")
        ELSE IF subjects.raised \/ teachers.raised \/ lessons.raised \/ types.raised
             THEN Raises
        ELSE SummaryResult(
                 Summarize(attendances_data.list,
                           [types |-> types.dict, lessons |-> lessons.dict,
                            subjects |-> subjects.dict, teachers |-> teachers.dict]))

\* lines 284-292: the grade categories
get_categories(data) ==
    IF HasList(data)
    THEN IF LacksKey(data.list, {"Id"}) THEN KeyError
         ELSE Fetched([id \in Ids(data.list) |->
                  [name |-> DictGet(LastWith(data.list, id), "Name", ""),
                   weight |-> DictGet(LastWith(data.list, id), "Weight", 0)]])
    ELSE Fetched(<<>>)

\* categories.get(category_id, {}) of an unknown category
NoCategory == [unknown |-> TRUE]

\* lines 296-297: the subject name of a grade
GradeSubject(grade, subjects) == DictGet(subjects, grade.Subject, S_Nieznany)

\* the entry of a grade that looks at the final flags only, not at the
\* propositions
GradeEntryFinalOnly(grade, categories, teachers) ==
    LET category == DictGet(categories, grade.Category, NoCategory)
    IN  [grade |-> grade.Grade,
         weight |-> DictGet(category, "weight", 0),
         category |-> DictGet(category, "name", ""),
         isFinal |-> DictGet(grade, "IsFinal", FALSE),
         isSemester |-> DictGet(grade, "IsSemester", FALSE),
         teacher |-> TeacherName(grade, [teachers |-> teachers])]

\* lines 302-317: the entry of a grade
GradeEntry(grade, categories, teachers) ==
    LET category == DictGet(categories, grade.Category, NoCategory)
    IN  [grade |-> grade.Grade,
         weight |-> DictGet(category, "weight", 0),
         category |-> DictGet(category, "name", ""),
         isFinal |-> \/ DictGet(grade, "IsFinal", FALSE)
                     \/ DictGet(grade, "IsFinalProposition", FALSE),
         isSemester |-> \/ DictGet(grade, "IsSemester", FALSE)
                        \/ DictGet(grade, "IsSemesterProposition", FALSE),
         teacher |-> TeacherName(grade, [teachers |-> teachers])]

\* lines 294-317: the loop over the grades.  result is the dict of the
\* source as the list of its items [name, grades], in the order in which
\* the keys were inserted (the order a dict keeps).
RECURSIVE GradeLoop(_, _, _, _, _)
GradeLoop(grades, subjects, categories, teachers, result) ==
    IF grades = <<>> THEN result
    ELSE LET grade == Head(grades)
             subject_name == GradeSubject(grade, subjects)
             entry == GradeEntry(grade, categories, teachers)
             r0 == IF \E i \in 1..Len(result) : result[i].name = subject_name
                   THEN result
                   ELSE Append(result, [name |-> subject_name, grades |-> <<>>])
             r1 == [i \in 1..Len(r0) |->
                       IF r0[i].name = subject_name
                       THEN [r0[i] EXCEPT !.grades = Append(@, entry)]
                       ELSE r0[i]]
         IN  GradeLoop(Tail(grades), subjects, categories, teachers, r1)

\* LibrusAPI.get_grades, lines 273-319
api_get_grades(cookies, ans) ==
    LET grades_data == get_data(cookies, ans.Grades)
        subjects == get_subjects(get_data(cookies, ans.Subjects))
        teachers == get_teachers(get_data(cookies, ans.Users))
        categories == get_categories(get_data(cookies, ans.Categories))
    IN  IF ~IsTruthy(grades_data) \/ "list" \notin grades_data.keys
        THEN IF IsTruthy(grades_data) /\ "error" \in grades_data.keys
             THEN ErrorResult(grades_data.error)
             ELSE ErrorResult("no_data")
        ELSE IF subjects.raised \/ teachers.raised \/ categories.raised
             THEN Raises
        ELSE SummaryResult(GradeLoop(grades_data.list, subjects.dict,
                                     categories.dict, teachers.dict, <<>>))

-----------------------------------------------------------------------------
(***************************************************************************)
(* The inputs of the summary: type descriptors, counters, and attendance   *)
(* lists with the lookup tables of the composite fetchers (lines 127-164). *)
(***************************************************************************)
\* the largest counter of a percentage input
MaxCount == 4

\* the longest attendance list
MaxRecords == 4

ShortCodes ==
    { <<>>,
      <<"s", "p">>,
      <<"S", "P">>,
      <<"S", "p">>,
      <<"o", "b">>,
      <<"O", "B">>,
      <<"u">>,
      <<"n", "u">>,
      <<"u", "s">>,
      <<"U", "S">>,
      <<"n", "b">>,
      <<"N", "B">>,
      <<"z", "w">>,
      <<"x">> }

TypeNames ==
    { <<>>,
      <<"S", "p", "o_acute", "z_acute", "n", "i", "e", "n", "i", "e">>,
      <<"S", "P", "O_acute", "Z_acute", "N", "I", "E", "N", "I", "E">>,
      <<"O", "b", "e", "c", "n", "o", "s", "c">>,
      <<"N", "i", "e", "o", "b", "e", "c", "n", "o", "s", "c">>,
      <<"Z", "w", "o", "l", "n", "i", "e", "n", "i", "e">>,
      <<"U", "c", "z", "e", "n", " ", "s", "p", "o_acute", "z_acute", "n", "i", "o", "n", "y">> }

\* the descriptors get_attendance_types builds, and the empty dict
Descriptors ==
    {NoType} \cup [isPresence : BOOLEAN, name : TypeNames, short : ShortCodes]

\* the counters of a subject
Counters ==
    [present : 0..MaxCount, absent : 0..MaxCount, late : 0..MaxCount,
     excused : 0..MaxCount]

S_Fizyka == <<"F", "i", "z", "y", "k", "a">>

S_Matematyka == <<"M", "a", "t", "e", "m", "a", "t", "y", "k", "a">>

\* the tables of a register that answers every supporting fetch: two
\* subjects (ids 1 and 4) carry the same name, lesson 15 is not listed
FullTables ==
    [types |-> (1 :> [isPresence |-> TRUE, name |-> <<"O", "b", "e", "c", "n", "o", "s", "c">>,
                      short |-> S_ob]
             @@ 2 :> [isPresence |-> FALSE, name |-> <<"N", "i", "e", "o", "b", "e", "c", "n", "o", "s", "c">>,
                      short |-> S_nb]
             @@ 3 :> [isPresence |-> FALSE, name |-> <<"S", "p", "o_acute", "z_acute", "n", "i", "e", "n", "i", "e">>,
                      short |-> S_sp]
             @@ 4 :> [isPresence |-> FALSE, name |-> <<"U", "s", "p", "r", "a", "w", "i", "e", "d", "l", "i", "w", "i", "o", "n", "a">>,
                      short |-> S_u]
             @@ 5 :> [isPresence |-> FALSE, name |-> <<"Z", "w", "o", "l", "n", "i", "e", "n", "i", "e">>,
                      short |-> <<"z", "w">>]),
     lessons |-> (10 :> 1 @@ 11 :> 2 @@ 13 :> 4),
     subjects |-> (1 :> S_Fizyka @@ 2 :> S_Matematyka @@ 4 :> S_Fizyka),
     teachers |-> (7 :> [FirstName |-> <<"A", "n", "n", "a">>, LastName |-> <<"N", "o", "w", "a", "k">>]
                @@ 8 :> [FirstName |-> <<>>, LastName |-> <<"K", "o", "t">>])]

\* the tables when every supporting fetch failed: each fetcher gives {}
EmptyTables == [types |-> <<>>, lessons |-> <<>>, subjects |-> <<>>, teachers |-> <<>>]

\* the teacher who added the records of a lesson (9 is no known teacher)
AddedBy(lesson) == IF lesson = 11 THEN 8 ELSE IF lesson = 13 THEN 9 ELSE 7

\* the records of the primary resource: a type id, a lesson id, a teacher id
AttRecords ==
    {[Type |-> k[1], Lesson |-> k[2], AddedBy |-> AddedBy(k[2])] :
        k \in {<<1, 10>>, <<2, 10>>, <<3, 10>>, <<4, 10>>,
               <<2, 11>>, <<5, 11>>, <<1, 13>>, <<2, 15>>}}

\* the attendance lists of at most n records
AttLists(n) == UNION {[1..k -> AttRecords] : k \in 0..n}

\* the answers of the register to a GET
ExcAnswer ==
    [exc |-> TRUE, status |-> "200", parses |-> TRUE,
     body |-> [keys |-> NoKeys, list |-> <<>>, error |-> ""]]

StatusAnswer(st) == [ExcAnswer EXCEPT !.exc = FALSE, !.status = st]

UnparsableAnswer == [ExcAnswer EXCEPT !.exc = FALSE, !.parses = FALSE]

OkAnswer(body) == [ExcAnswer EXCEPT !.exc = FALSE, !.body = body]

\* a body with the resource's list
ListBody(list) == [keys |-> {"list"}, list |-> list, error |-> ""]

\* the bodies a 200 may carry: any keys, the list one of lists
JsonBodies(lists) ==
    {[keys |-> ks, list |-> l, error |-> e] :
        ks \in SUBSET {"list", "error", "other"}, l \in lists \cup {<<>>},
        e \in {"", "upstream"}}

\* a body holds a list iff it has the key, an error text iff it has the key
WellKeyed(b) ==
    /\ "list" \notin b.keys => b.list = <<>>
    /\ ("error" \in b.keys) <=> (b.error = "upstream")

Answers(lists) ==
    {ExcAnswer, UnparsableAnswer}
    \cup {StatusAnswer(st) : st \in {"401", "404", "500"}}
    \cup {OkAnswer(b) : b \in {x \in JsonBodies(lists) : WellKeyed(x)}}

\* the lists of the supporting resources that give FullTables
SubjectEntries ==
    << [Id |-> 1, Name |-> S_Fizyka], [Id |-> 2, Name |-> S_Matematyka],
       [Id |-> 4, Name |-> S_Fizyka] >>

TeacherEntries ==
    << [Id |-> 7, FirstName |-> FullTables.teachers[7].FirstName,
        LastName |-> FullTables.teachers[7].LastName],
       [Id |-> 8, LastName |-> FullTables.teachers[8].LastName] >>

LessonEntries ==
    << [Id |-> 10, Subject |-> [Id |-> 1]], [Id |-> 11, Subject |-> [Id |-> 2]],
       [Id |-> 13, Subject |-> [Id |-> 4]] >>

TypeEntries ==
    [i \in 1..5 |-> [Id |-> i, IsPresenceKind |-> FullTables.types[i].isPresence,
                     Name |-> FullTables.types[i].name,
                     Short |-> FullTables.types[i].short]]

\* lists with an entry that lacks a key
BadSubjectEntries == << [Id |-> 1, Name |-> S_Fizyka], [Id |-> 2] >>

BadTeacherEntries == << [FirstName |-> <<"A", "n", "n", "a">>] >>

BadLessonEntries == << [Id |-> 10, Subject |-> [Url |-> "u"]] >>

BadTypeEntries == << [Name |-> S_Fizyka, Short |-> S_ob] >>

\* the answers for a supporting resource: failures, a body without the
\* list, the good list and the bad one
SupportAnswers(good, bad) ==
    {ExcAnswer, StatusAnswer("401"),
     OkAnswer([keys |-> {"other"}, list |-> <<>>, error |-> ""]),
     OkAnswer(ListBody(good)), OkAnswer(ListBody(bad))}

GoodSupport ==
    [Subjects |-> OkAnswer(ListBody(SubjectEntries)),
     Users |-> OkAnswer(ListBody(TeacherEntries)),
     Lessons |-> OkAnswer(ListBody(LessonEntries)),
     Types |-> OkAnswer(ListBody(TypeEntries))]

NoSupport ==
    [Subjects |-> ExcAnswer, Users |-> ExcAnswer, Lessons |-> ExcAnswer,
     Types |-> ExcAnswer]

\* the answers to the five GETs of get_attendances
WithPrimary(primary, support) ==
    [Attendances |-> primary, Subjects |-> support.Subjects,
     Users |-> support.Users, Lessons |-> support.Lessons,
     Types |-> support.Types, Grades |-> ExcAnswer, Categories |-> ExcAnswer]

\* the answers to the four GETs of get_grades
WithGrades(primary, subjects, users, categories) ==
    [Attendances |-> ExcAnswer, Subjects |-> subjects, Users |-> users,
     Lessons |-> ExcAnswer, Types |-> ExcAnswer, Grades |-> primary,
     Categories |-> categories]

\* the longest list of grades
MaxGrades == 3

CategoryEntries ==
    << [Id |-> 20, Name |-> "Sprawdzian", Weight |-> 3], [Id |-> 21] >>

BadCategoryEntries == << [Name |-> "Kartkowka", Weight |-> 2] >>

\* a grade of subject s with the four flags
FlaggedGrade(s, f, fp, sm, smp) ==
    [Grade |-> "5", Subject |-> s, Category |-> 20, AddedBy |-> 7,
     IsFinal |-> f, IsFinalProposition |-> fp,
     IsSemester |-> sm, IsSemesterProposition |-> smp]

\* grades with every combination of the flags
FlagRecords ==
    {FlaggedGrade(2, f, fp, sm, smp) : f, fp, sm, smp \in BOOLEAN}

\* the grades of the longer lists: subjects 1 and 4 share a name, subject 9
\* is unknown, one grade has no flags at all
GradeRecords ==
    { FlaggedGrade(2, FALSE, TRUE, FALSE, FALSE),
      FlaggedGrade(1, FALSE, FALSE, FALSE, FALSE),
      FlaggedGrade(4, TRUE, FALSE, FALSE, FALSE),
      FlaggedGrade(9, FALSE, FALSE, FALSE, TRUE),
      FlaggedGrade(2, FALSE, FALSE, TRUE, FALSE),
      [Grade |-> "3", Subject |-> 1, Category |-> 99, AddedBy |-> 9] }

GradeLists ==
    UNION {[1..k -> GradeRecords] : k \in 0..MaxGrades}
    \cup {<<g>> : g \in FlagRecords}

\* two attendance lists for the inputs that vary the supporting resources
SampleLists ==
    { << [Type |-> 3, Lesson |-> 10, AddedBy |-> 7] >>,
      << [Type |-> 1, Lesson |-> 10, AddedBy |-> 7],
         [Type |-> 2, Lesson |-> 11, AddedBy |-> 8],
         [Type |-> 2, Lesson |-> 15, AddedBy |-> 7] >> }

NoInput ==
    [mode |-> "none", att_type |-> NoType, stats |-> ZeroSubjectStats,
     atts |-> <<>>, tables |-> EmptyTables, cookies |-> EmptyJar,
     ans |-> WithPrimary(ExcAnswer, NoSupport)]

\* one GET: the cookies and the answer
ResourceInputs ==
    {[NoInput EXCEPT !.mode = "resource", !.cookies = c,
                     !.ans = WithPrimary(a, NoSupport)] :
        c \in {EmptyJar, [jar |-> "cookiesA"]}, a \in Answers(AttLists(1))}

\* get_attendances under every answer for the primary resource
PrimaryInputs ==
    {[NoInput EXCEPT !.mode = "attendances", !.cookies = c,
                     !.ans = WithPrimary(a, sup)] :
        c \in {EmptyJar, [jar |-> "cookiesA"]}, a \in Answers(AttLists(1)),
        sup \in {GoodSupport, NoSupport}}

\* get_grades of every list of grades, with and without supporting data
GradesInputs ==
    {[NoInput EXCEPT !.mode = "grades", !.cookies = [jar |-> "cookiesA"],
                     !.ans = WithGrades(OkAnswer(ListBody(l)), sup.Subjects,
                                        sup.Users, sup.Categories)] :
        l \in GradeLists,
        sup \in {[Subjects |-> GoodSupport.Subjects, Users |-> GoodSupport.Users,
                  Categories |-> OkAnswer(ListBody(CategoryEntries))],
                 [Subjects |-> ExcAnswer, Users |-> ExcAnswer,
                  Categories |-> ExcAnswer]}}

\* get_grades under every answer for its resources, for one list
GradesSupportInputs ==
    {[NoInput EXCEPT !.mode = "grades", !.cookies = c,
                     !.ans = WithGrades(a, sub, us, cat)] :
        c \in {EmptyJar, [jar |-> "cookiesA"]},
        a \in {ExcAnswer, StatusAnswer("401"), StatusAnswer("500"),
               OkAnswer(ListBody(<<FlaggedGrade(2, FALSE, TRUE, FALSE, FALSE)>>))},
        sub \in SupportAnswers(SubjectEntries, BadSubjectEntries),
        us \in SupportAnswers(TeacherEntries, BadTeacherEntries),
        cat \in SupportAnswers(CategoryEntries, BadCategoryEntries)}

\* get_attendances under every answer for the supporting resources
SupportInputs ==
    {[NoInput EXCEPT !.mode = "attendances", !.cookies = [jar |-> "cookiesA"],
                     !.ans = WithPrimary(OkAnswer(ListBody(l)), sup)] :
        l \in SampleLists,
        sup \in [Subjects : SupportAnswers(SubjectEntries, BadSubjectEntries),
                 Users : SupportAnswers(TeacherEntries, BadTeacherEntries),
                 Lessons : SupportAnswers(LessonEntries, BadLessonEntries),
                 Types : SupportAnswers(TypeEntries, BadTypeEntries)]}

Inputs ==
    {[NoInput EXCEPT !.mode = "descriptor", !.att_type = d] : d \in Descriptors}
    \cup {[NoInput EXCEPT !.mode = "counters", !.stats = c] : c \in Counters}
    \cup {[NoInput EXCEPT !.mode = "list", !.atts = a, !.tables = t] :
              a \in AttLists(MaxRecords), t \in {FullTables, EmptyTables}}
    \cup ResourceInputs \cup PrimaryInputs \cup SupportInputs
    \cup GradesInputs \cup GradesSupportInputs

-----------------------------------------------------------------------------
(***************************************************************************)
(* Request handlers (app.py).  A request carries the client origin, an     *)
(* Authorization header (None, or a scheme and a token) and, for a login,  *)
(* a JSON body.  resp is the answer of the handler that ran last, with     *)
(* what it did (step: where the upstream made the handshake fail, -1 when   *)
(* no handshake ran; pruned: how many attempts check_rate_limit dropped);   *)
(* it is NoResp once time has passed since.                                *)
(***************************************************************************)
\* a token no login ever returns: what a client that makes one up sends
BogusToken == "bogus"

\* the Authorization headers a client can send: none, another scheme, or
\* Bearer with a token it was given or one it made up (a uuid4 cannot be
\* guessed before it is issued)
Auths ==
    {None, [scheme |-> "Basic", token |-> BogusToken]}
        \cup [scheme : {"Bearer"}, token : DOMAIN issued \cup {BogusToken}]

\* request.json of a login: absent/empty, without login, without password, complete
Bodies == {"none", "nologin", "nopassword", "ok"}

MalformedBodies == Bodies \ {"ok"}

NoResp ==
    [op |-> "none", ip |-> "", status |-> 0, error |-> "", token |-> "",
     session |-> None, user |-> None, calls |-> <<>>, step |-> -1,
     pruned |-> 0, data |-> None,
     up |-> DefaultUp, requests |-> <<>>]

\* auth and auth.startswith("Bearer ")
IsBearer(auth) == auth # None /\ auth.scheme = "Bearer"

\* how long a handshake, or the gap between two reads of the clock, may
\* take when the clock advances in multiples of step
Delays(step) == {0, step}

\* uuid.uuid4(): a token no earlier call returned.  Tokens are opaque, so
\* which unused one it is changes nothing but the name: the model takes them
\* in order.
TokenOrder == <<"tok1", "tok2", "tok3">>

FreshTokens ==
    {t \in TokenPool \ DOMAIN issued :
        \A i, j \in 1..Len(TokenOrder) :
            (TokenOrder[j] = t /\ i < j) => TokenOrder[i] \in DOMAIN issued}

\* the step of the handshake at which the upstream makes it fail, 0 if none
\* (1 initial GET, 2-3 credentials POST, 4 grant, 6-7 activation, 8 profile)
FailingStep(up) ==
    IF up.init = "exc" THEN 1
    ELSE IF up.postExc THEN 2
    ELSE IF up.postMarker \/ up.postStatus = "401" THEN 3
    ELSE IF up.grant # "200" THEN 4
    ELSE IF up.tokenInfo # "id" THEN 6
    ELSE IF up.userInfo # "200" THEN 7
    ELSE IF up.me \in {"exc", "non200", "empty"} THEN 8
    ELSE 0

\* librus_login, lines 70-74: the origin is over the limit
LoginRateLimited(ip) ==
    LET chk == check_rate_limit(login_attempts[ip], now)
    IN  /\ ~chk.allowed
        /\ login_attempts' = [login_attempts EXCEPT ![ip] = chk.log]
        /\ resp' = [NoResp EXCEPT !.op = "login", !.ip = ip, !.status = 429,
                        !.error = "Zbyt wiele prob logowania. Sprobuj za 5 minut.",
                        !.calls = <<"allow">>,
                        !.pruned = Len(login_attempts[ip]) - Len(chk.log)]
        /\ UNCHANGED <<sessions, now, issued, revoked, input, threads>>

\* the attempt recorded before the body is validated
LoginMalformedRecorded(ip, body) ==
    LET chk == check_rate_limit(login_attempts[ip], now)
    IN  /\ chk.allowed
        /\ body # "ok"
        /\ login_attempts' =
              [login_attempts EXCEPT ![ip] = record_login_attempt(chk.log, now)]
        /\ resp' = [NoResp EXCEPT !.op = "login", !.ip = ip, !.status = 400,
                        !.error = IF body = "none" THEN "No data provided"
                                  ELSE "Missing login or password",
                        !.calls = <<"allow", "record">>,
                        !.pruned = Len(login_attempts[ip]) - Len(chk.log)]
        /\ UNCHANGED <<sessions, now, issued, revoked, input, threads>>

\* librus_login, lines 76-84: no body, or no login or password in it
LoginMalformed(ip, body) ==
    LET chk == check_rate_limit(login_attempts[ip], now)
    IN  /\ chk.allowed
        /\ body # "ok"
        /\ login_attempts' = [login_attempts EXCEPT ![ip] = chk.log]
        /\ resp' = [NoResp EXCEPT !.op = "login", !.ip = ip, !.status = 400,
                        !.error = IF body = "none" THEN "No data provided"
                                  ELSE "Missing login or password",
                        !.calls = <<"allow">>,
                        !.pruned = Len(login_attempts[ip]) - Len(chk.log)]
        /\ UNCHANGED <<sessions, now, issued, revoked, input, threads>>

\* the session librus_login stores for a successful handshake, lines 98-102
NewSession(result, t) ==
    [cookies |-> result.cookies, user |-> result.user, created |-> t]

\* librus_login, lines 86-111: the attempt is recorded, the handshake runs
\* (taking dur) and, if it succeeded, a session is stored under a new token
LoginAttempt(ip, up, dur, maxT) ==
    LET chk == check_rate_limit(login_attempts[ip], now)
        result == login(up)
        done == now + dur
    IN  /\ chk.allowed
        /\ done <= maxT
        /\ login_attempts' =
              [login_attempts EXCEPT ![ip] = record_login_attempt(chk.log, now)]
        /\ now' = done
        /\ UNCHANGED <<revoked, input, threads>>
        /\ IF result.success
           THEN \E token \in FreshTokens :
                  /\ sessions' = DictPut(sessions, token, NewSession(result, done))
                  /\ issued' = DictPut(issued, token, NewSession(result, done))
                  /\ resp' = [NoResp EXCEPT !.op = "login", !.ip = ip,
                                  !.status = 200, !.token = token,
                                  !.user = result.user,
                                  !.step = FailingStep(up),
                                  !.up = up, !.requests = result.requests,
                                  !.calls = <<"allow", "record", "exchange">>,
                                  !.pruned = Len(login_attempts[ip]) - Len(chk.log)]
           ELSE /\ resp' = [NoResp EXCEPT !.op = "login", !.ip = ip,
                                !.status = 401, !.error = result.error,
                                !.step = FailingStep(up),
                                !.up = up, !.requests = result.requests,
                                !.calls = <<"allow", "record", "exchange">>,
                                !.pruned = Len(login_attempts[ip]) - Len(chk.log)]
                /\ UNCHANGED <<sessions, issued>>

\* the part every authenticated handler starts with (lines 116-124): the
\* header check, then get_session.  d is the time between get_session's two
\* reads of the clock (the second read happens only for a session found).
Resolve(op, auth, d, maxT) ==
    IF ~IsBearer(auth)
    THEN /\ d = 0
         /\ resp' = [NoResp EXCEPT !.op = op, !.status = 401,
                         !.error = "No authorization"]
         /\ UNCHANGED <<sessions, now>>
    ELSE LET r == get_session(sessions, auth.token, now, now + d)
         IN  /\ now + d <= maxT
             /\ d > 0 => auth.token \in DOMAIN cleanup_old_sessions(sessions, now)
             /\ sessions' = r.sessions
             /\ now' = now + d
             /\ resp' = IF r.ret = None
                        THEN [NoResp EXCEPT !.op = op, !.status = 401,
                                  !.error = "Session expired",
                                  !.token = auth.token,
                                  !.calls = <<"resolve">>]
                        ELSE [NoResp EXCEPT !.op = op, !.status = 200,
                                  !.token = auth.token, !.session = r.ret,
                                  !.user = r.ret.user,
                                  !.calls = <<"resolve">>]

\* GET /librus/me
get_me(step, maxT) ==
    \E auth \in Auths, d \in Delays(step) :
        /\ Resolve("me", auth, d, maxT)
        /\ UNCHANGED <<login_attempts, issued, revoked, input, threads>>

\* what the register answers to the GETs of a data fetch of a handler: the
\* list, a 401, another status, a raised request
FetchAnswers(list) ==
    {OkAnswer(ListBody(list)), StatusAnswer("401"), StatusAnswer("500"), ExcAnswer}

AttendanceAnswers ==
    {WithPrimary(a, GoodSupport) :
        a \in FetchAnswers(<< [Type |-> 3, Lesson |-> 10, AddedBy |-> 7] >>)}

GradeAnswers ==
    {WithGrades(a, GoodSupport.Subjects, GoodSupport.Users,
                OkAnswer(ListBody(CategoryEntries))) :
        a \in FetchAnswers(<< FlaggedGrade(1, FALSE, FALSE, FALSE, FALSE) >>)}

\* the results of the fetches of the handlers, for every bundle of cookies
\* and every answer of the register
AttendanceFetches ==
    [c \in Jars, ans \in AttendanceAnswers |-> api_get_attendances(c, ans)]

GradeFetches ==
    [c \in Jars, ans \in GradeAnswers |-> api_get_grades(c, ans)]

\* lines 130-137 and 156-163: the response made of the result of the fetch
\* (an exception the fetch raises is answered with a 500 by the framework)
FetchResponse(op, token, session, result) ==
    IF result.kind = "error"
    THEN IF result.error = "session_expired"
         THEN [NoResp EXCEPT !.op = op, !.status = 401, !.token = token,
                   !.error = "Session expired", !.calls = <<"resolve", "fetch">>]
         ELSE [NoResp EXCEPT !.op = op, !.status = 500, !.token = token,
                   !.error = result.error, !.calls = <<"resolve", "fetch">>]
    ELSE IF result.kind = "raise"
    THEN [NoResp EXCEPT !.op = op, !.status = 500, !.token = token,
              !.error = "Internal Server Error", !.calls = <<"resolve", "fetch">>]
    ELSE [NoResp EXCEPT !.op = op, !.status = 200, !.token = token,
              !.session = session, !.data = result,
              !.calls = <<"resolve", "fetch">>]

\* lines 116-137 and 142-163: the session is resolved and, when there is
\* one, the data are fetched with its cookies; fetches gives the result of
\* the fetch for the cookies and the answer of the register
DataFetch(op, fetches, answers, auth, d, maxT) ==
    LET r == get_session(sessions, auth.token, now, now + d)
    IN  IF ~IsBearer(auth) \/ r.ret = None
        THEN Resolve(op, auth, d, maxT)
        ELSE /\ now + d <= maxT
             /\ sessions' = r.sessions
             /\ now' = now + d
             /\ \E ans \in answers :
                   resp' = FetchResponse(op, auth.token, r.ret,
                                         fetches[r.ret.cookies, ans])

\* GET /librus/attendances
get_attendances(step, maxT) ==
    \E auth \in Auths, d \in Delays(step) :
        /\ DataFetch("attendances", AttendanceFetches, AttendanceAnswers,
                     auth, d, maxT)
        /\ UNCHANGED <<login_attempts, issued, revoked, input, threads>>

\* GET /librus/grades
get_grades(step, maxT) ==
    \E auth \in Auths, d \in Delays(step) :
        /\ DataFetch("grades", GradeFetches, GradeAnswers, auth, d, maxT)
        /\ UNCHANGED <<login_attempts, issued, revoked, input, threads>>

\* a logout that forgets the deletion
RevokeNothing(S, token) == S

\* del sessions[token] if it is there (logout, lines 186-187)
Revoke(S, token) == IF token \in DOMAIN S THEN DictDel(S, token) ELSE S

\* POST /librus/logout
logout ==
    \E auth \in Auths :
        /\ sessions' = IF IsBearer(auth) THEN Revoke(sessions, auth.token)
                       ELSE sessions
        /\ revoked' = IF IsBearer(auth) THEN revoked \cup {auth.token} ELSE revoked
        /\ resp' = [NoResp EXCEPT !.op = "logout", !.status = 200,
                        !.error = "Wylogowano",
                        !.token = IF IsBearer(auth) THEN auth.token ELSE "",
                        !.calls = IF IsBearer(auth) THEN <<"revoke">> ELSE <<>>]
        /\ UNCHANGED <<login_attempts, now, issued, input, threads>>

\* time passes between requests
Tick(step, maxT) ==
    /\ now + step <= maxT
    /\ now' = now + step
    /\ resp' = NoResp
    /\ UNCHANGED <<sessions, login_attempts, issued, revoked, input, threads>>

-----------------------------------------------------------------------------
(***************************************************************************)
(* Requests served by concurrent threads.  The handlers take no lock       *)
(* (app.py has none), so a thread may be switched out between any two of   *)
(* its operations on the shared dicts; each such operation is one step.    *)
(* A thread's record holds the locals of the request it serves.            *)
(***************************************************************************)
Threads == {"th1", "th2"}

Idle ==
    [op |-> "idle", pc |-> "idle", token |-> "", current_time |-> 0,
     size0 |-> 0, seen |-> {}, expired |-> <<>>, created |-> 0,
     ip |-> "", newlog |-> <<>>, stamp |-> -1, outcome |-> ""]

\* the thread ends its request with an outcome
Ended(th, outcome) == [th EXCEPT !.pc = "done", !.outcome = outcome]

\* the first of a set of tokens in the order the dict iterates them
FirstToken(S) ==
    TokenOrder[CHOOSE i \in 1..Len(TokenOrder) :
                  /\ TokenOrder[i] \in S
                  /\ \A j \in 1..(i-1) : TokenOrder[j] \notin S]

\* a thread takes a request that resolves a token (get_session, line 32)
StartResolve(t) ==
    \E token \in DOMAIN issued :
        /\ threads[t].pc = "idle"
        /\ threads' = [threads EXCEPT ![t] =
                          [Idle EXCEPT !.op = "resolve", !.pc = "sweep",
                                       !.token = token]]
        /\ UNCHANGED <<srvVars, input>>

\* lines 27-28: the clock is read and the iteration of sessions.items()
\* begins; the iterator remembers the size of the dict
SweepBegin(t) ==
    /\ threads[t].pc = "sweep"
    /\ threads' = [threads EXCEPT ![t].pc = "iter",
                                  ![t].current_time = now,
                                  ![t].size0 = Cardinality(DOMAIN sessions)]
    /\ UNCHANGED <<srvVars, input>>

\* line 28: the iterator gives the next item, or raises RuntimeError
\* (dictionary changed size during iteration), or is exhausted
SweepNext(t) ==
    LET th == threads[t]
        rest == DOMAIN sessions \ th.seen
    IN  /\ th.pc = "iter"
        /\ threads' = [threads EXCEPT ![t] =
              IF Cardinality(DOMAIN sessions) # th.size0
              THEN Ended(th, "RuntimeError")
              ELSE IF rest = {} THEN [th EXCEPT !.pc = "del"]
              ELSE LET k == FirstToken(rest)
                   IN  [th EXCEPT !.seen = @ \cup {k},
                                  !.expired =
                                      IF Expired(sessions[k].created, th.current_time)
                                      THEN Append(@, k) ELSE @]]
        /\ UNCHANGED <<srvVars, input>>

\* lines 29-30: del sessions[k] for the next k of expired; KeyError when k
\* is no longer there
SweepDel(t) ==
    LET th == threads[t]
    IN  /\ th.pc = "del"
        /\ IF th.expired = <<>>
           THEN /\ threads' = [threads EXCEPT ![t].pc = "lookup"]
                /\ UNCHANGED sessions
           ELSE IF Head(th.expired) \in DOMAIN sessions
           THEN /\ sessions' = DictDel(sessions, Head(th.expired))
                /\ threads' = [threads EXCEPT ![t].expired = Tail(@)]
           ELSE /\ threads' = [threads EXCEPT ![t] = Ended(th, "KeyError")]
                /\ UNCHANGED sessions
        /\ UNCHANGED <<login_attempts, now, issued, revoked, resp, input>>

\* lines 35-36 and 40: session = sessions.get(token)
Lookup(t) ==
    LET th == threads[t]
    IN  /\ th.pc = "lookup"
        /\ threads' = [threads EXCEPT ![t] =
              IF th.token \in DOMAIN sessions
              THEN [th EXCEPT !.pc = "check", !.created = sessions[th.token].created]
              ELSE Ended(th, "None")]
        /\ UNCHANGED <<srvVars, input>>

\* lines 37-40: the second reading of the clock; del sessions[token] raises
\* KeyError when the token is no longer there
CheckFound(t) ==
    LET th == threads[t]
    IN  /\ th.pc = "check"
        /\ IF ~Expired(th.created, now)
           THEN /\ threads' = [threads EXCEPT ![t] = Ended(th, "session")]
                /\ UNCHANGED sessions
           ELSE IF th.token \in DOMAIN sessions
           THEN /\ sessions' = DictDel(sessions, th.token)
                /\ threads' = [threads EXCEPT ![t] = Ended(th, "None")]
           ELSE /\ threads' = [threads EXCEPT ![t] = Ended(th, "KeyError")]
                /\ UNCHANGED sessions
        /\ UNCHANGED <<login_attempts, now, issued, revoked, resp, input>>

\* a thread takes a logout request (line 181)
StartLogout(t) ==
    \E token \in DOMAIN issued :
        /\ threads[t].pc = "idle"
        /\ threads' = [threads EXCEPT ![t] =
                          [Idle EXCEPT !.op = "logout", !.pc = "contains",
                                       !.token = token]]
        /\ UNCHANGED <<srvVars, input>>

\* line 186: token in sessions
LogoutContains(t) ==
    LET th == threads[t]
    IN  /\ th.pc = "contains"
        /\ threads' = [threads EXCEPT ![t] =
              IF th.token \in DOMAIN sessions
              THEN [th EXCEPT !.pc = "logout_del"]
              ELSE Ended(th, "ok")]
        /\ UNCHANGED <<srvVars, input>>

\* line 187: del sessions[token]; KeyError when it is no longer there
LogoutDel(t) ==
    LET th == threads[t]
    IN  /\ th.pc = "logout_del"
        /\ IF th.token \in DOMAIN sessions
           THEN /\ sessions' = DictDel(sessions, th.token)
                /\ threads' = [threads EXCEPT ![t] = Ended(th, "ok")]
           ELSE /\ threads' = [threads EXCEPT ![t] = Ended(th, "KeyError")]
                /\ UNCHANGED sessions
        /\ UNCHANGED <<login_attempts, now, issued, revoked, resp, input>>

\* a thread takes a login request of an origin (librus_login, line 67)
StartLogin(t, ip) ==
    /\ threads[t].pc = "idle"
    /\ threads' = [threads EXCEPT ![t] =
                      [Idle EXCEPT !.op = "login", !.pc = "prune", !.ip = ip]]
    /\ UNCHANGED <<srvVars, input>>

\* lines 44-46, right-hand side: the clock is read and the list of the
\* attempts still in the window is built
LimiterPrune(t) ==
    LET th == threads[t]
    IN  /\ th.pc = "prune"
        /\ threads' = [threads EXCEPT ![t].pc = "assign",
                                      ![t].current_time = now,
                                      ![t].newlog = Prune(login_attempts[th.ip], now)]
        /\ UNCHANGED <<srvVars, input>>

\* line 46, the assignment: login_attempts[ip] = the list built
LimiterAssign(t) ==
    LET th == threads[t]
    IN  /\ th.pc = "assign"
        /\ login_attempts' = [login_attempts EXCEPT ![th.ip] = th.newlog]
        /\ threads' = [threads EXCEPT ![t].pc = "len"]
        /\ UNCHANGED <<sessions, now, issued, revoked, resp, input>>

\* lines 48-50 and 70-84: the length is compared; over the limit the request
\* ends with 429 (the body of the request is well-formed)
LimiterLen(t) ==
    LET th == threads[t]
    IN  /\ th.pc = "len"
        /\ threads' = [threads EXCEPT ![t] =
              IF Len(login_attempts[th.ip]) >= MAX_LOGIN_ATTEMPTS
              THEN Ended(th, "429")
              ELSE [th EXCEPT !.pc = "record"]]
        /\ UNCHANGED <<srvVars, input>>

\* lines 54 and 87: login_attempts[ip].append(time.time())
LimiterRecord(t) ==
    LET th == threads[t]
    IN  /\ th.pc = "record"
        /\ login_attempts' =
              [login_attempts EXCEPT ![th.ip] = record_login_attempt(@, now)]
        /\ threads' = [threads EXCEPT ![t].pc = "exchange", ![t].stamp = now]
        /\ UNCHANGED <<sessions, now, issued, revoked, resp, input>>

\* lines 89-111: the handshake runs (here it fails: wrong password)
Exchange(t) ==
    /\ threads[t].pc = "exchange"
    /\ threads' = [threads EXCEPT ![t] = Ended(threads[t], "401")]
    /\ UNCHANGED <<srvVars, input>>

\* the response is sent and the thread is free for the next request
Finish(t) ==
    /\ threads[t].pc = "done"
    /\ threads' = [threads EXCEPT ![t] = Idle]
    /\ UNCHANGED <<srvVars, input>>

Init ==
    /\ sessions = <<>>
    /\ login_attempts = [ip \in Origins |-> <<>>]
    /\ now = 0
    /\ issued = <<>>
    /\ revoked = {}
    /\ resp = NoResp
    /\ input = NoInput
    /\ threads = [t \in Threads |-> Idle]

vars == <<srvVars, input, threads>>

(***************************************************************************)
(* Spec: the session registry under logins that succeed, authenticated     *)
(* requests, logouts and the passing of time.                              *)
(***************************************************************************)
GoodUpstreams == {up \in LoginUpstreams : FailingStep(up) = 0 /\ up.me = "account"
                     /\ (up.jar.jar = "cookiesA" <=> up.account.firstName = "Jan")}

Next ==
    \/ \E up \in GoodUpstreams, dur \in Delays(SessionStep) :
          LoginAttempt("ip1", up, dur, MaxTime)
    \/ get_me(SessionStep, MaxTime)
    \/ logout
    \/ Tick(SessionStep, MaxTime)

Spec == Init /\ [][Next]_vars

(***************************************************************************)
(* SpecLogin: login requests of every kind (rate limited, malformed, and   *)
(* attempts under every upstream behaviour) from one origin.               *)
(***************************************************************************)
NextLogin ==
    \/ LoginRateLimited("ip1")
    \/ \E body \in MalformedBodies : LoginMalformed("ip1", body)
    \/ \E up \in LoginUpstreams : LoginAttempt("ip1", up, 0, MaxTime)

SpecLogin == Init /\ [][NextLogin]_vars

(***************************************************************************)
(* SpecLimiter: the rate limiter under login requests from two origins     *)
(* and the passing of time.                                                *)
(***************************************************************************)
\* how far the clock runs in SpecLimiter
MaxLimiterTime == 450

LimiterUpstreams ==
    {up \in LoginUpstreams :
        \/ FailingStep(up) = 3 /\ up.postMarker /\ up.postStatus = "200"
        \/ FailingStep(up) = 0 /\ up.me = "account" /\ up.jar.jar = "cookiesA"
              /\ up.account.firstName = "Jan"}

NextLimiter ==
    \/ \E ip \in Origins : LoginRateLimited(ip)
    \/ \E ip \in Origins : LoginMalformed(ip, "nologin")
    \/ \E ip \in Origins, up \in LimiterUpstreams, dur \in Delays(TimeStep) :
          LoginAttempt(ip, up, dur, MaxLimiterTime)
    \/ Tick(TimeStep, MaxLimiterTime)

SpecLimiter == Init /\ [][NextLimiter]_vars

(***************************************************************************)
(* SpecRace: the session registry under requests that threads serve        *)
(* concurrently: resolves and logouts step by step, while logins store     *)
(* sessions and time passes.                                               *)
(***************************************************************************)
\* the clock of SpecRace jumps once, past the session timeout
RaceStep == 901

RaceMaxTime == 901

RaceUpstreams == {up \in GoodUpstreams : up.jar.jar = "cookiesA"}

NextRace ==
    \/ \E up \in RaceUpstreams : LoginAttempt("ip1", up, 0, RaceMaxTime)
    \/ Tick(RaceStep, RaceMaxTime)
    \/ \E t \in Threads : StartResolve(t)
    \/ \E t \in Threads : SweepBegin(t)
    \/ \E t \in Threads : SweepNext(t)
    \/ \E t \in Threads : SweepDel(t)
    \/ \E t \in Threads : Lookup(t)
    \/ \E t \in Threads : CheckFound(t)
    \/ \E t \in Threads : StartLogout(t)
    \/ \E t \in Threads : LogoutContains(t)
    \/ \E t \in Threads : LogoutDel(t)
    \/ \E t \in Threads : Finish(t)

SpecRace == Init /\ [][NextRace]_vars

(***************************************************************************)
(* SpecFetch: sessions used by the data handlers.  Logins issue sessions,  *)
(* the handlers of the profile, the attendances and the grades resolve     *)
(* them, and time passes in steps of half a timeout.                       *)
(***************************************************************************)
FetchStep == 451

FetchMaxTime == 910

NextFetch ==
    \/ \E up \in GoodUpstreams : LoginAttempt("ip1", up, 0, FetchMaxTime)
    \/ get_me(FetchStep, FetchMaxTime)
    \/ get_attendances(FetchStep, FetchMaxTime)
    \/ get_grades(FetchStep, FetchMaxTime)
    \/ Tick(FetchStep, FetchMaxTime)

SpecFetch == Init /\ [][NextFetch]_vars

(***************************************************************************)
(* SpecLimiterRace: the rate limiter under login requests of one origin    *)
(* that two threads serve step by step, next to requests served in one     *)
(* piece, and the passing of time.                                         *)
(***************************************************************************)
LimiterRaceTime == 150

WrongPassword ==
    {up \in LimiterUpstreams : FailingStep(up) = 3}

NextLimiterRace ==
    \/ \E up \in WrongPassword : LoginAttempt("ip1", up, 0, LimiterRaceTime)
    \/ LoginRateLimited("ip1")
    \/ Tick(TimeStep, LimiterRaceTime)
    \/ \E t \in Threads : StartLogin(t, "ip1")
    \/ \E t \in Threads : LimiterPrune(t)
    \/ \E t \in Threads : LimiterAssign(t)
    \/ \E t \in Threads : LimiterLen(t)
    \/ \E t \in Threads : LimiterRecord(t)
    \/ \E t \in Threads : Exchange(t)

SpecLimiterRace == Init /\ [][NextLimiterRace]_vars

(***************************************************************************)
(* SpecSummary: the summary functions applied to every input.              *)
(***************************************************************************)
\* lines 206-228 applied to a descriptor
categorize ==
    /\ input.mode = "descriptor"
    /\ resp = NoResp
    /\ resp' = [NoResp EXCEPT !.op = "categorize",
                    !.data = [category |-> Categorize(input.att_type)]]
    /\ UNCHANGED <<sessions, login_attempts, now, issued, revoked, input, threads>>

\* lines 240-251 applied to the counters
percentages ==
    /\ input.mode = "counters"
    /\ resp = NoResp
    /\ resp' = [NoResp EXCEPT !.op = "percentages",
                    !.data = [overall |-> OverallPercentage(input.stats),
                              subject |-> SubjectPercentage(input.stats)]]
    /\ UNCHANGED <<sessions, login_attempts, now, issued, revoked, input, threads>>

\* lines 174-271 applied to an attendance list and the tables
summarize ==
    /\ input.mode = "list"
    /\ resp = NoResp
    /\ resp' = [NoResp EXCEPT !.op = "summarize",
                    !.data = Summarize(input.atts, input.tables)]
    /\ UNCHANGED <<sessions, login_attempts, now, issued, revoked, input, threads>>

\* lines 104-118 applied to the cookies and one answer
fetch ==
    /\ input.mode = "resource"
    /\ resp = NoResp
    /\ resp' = [NoResp EXCEPT !.op = "get_data",
                    !.data = get_data(input.cookies, input.ans.Attendances)]
    /\ UNCHANGED <<sessions, login_attempts, now, issued, revoked, input, threads>>

\* lines 166-271 applied to the cookies and the answers of the register
attendances ==
    /\ input.mode = "attendances"
    /\ resp = NoResp
    /\ resp' = [NoResp EXCEPT !.op = "get_attendances",
                    !.data = api_get_attendances(input.cookies, input.ans)]
    /\ UNCHANGED <<sessions, login_attempts, now, issued, revoked, input, threads>>

\* lines 273-319 applied to the cookies and the answers of the register
grades ==
    /\ input.mode = "grades"
    /\ resp = NoResp
    /\ resp' = [NoResp EXCEPT !.op = "get_grades",
                    !.data = api_get_grades(input.cookies, input.ans)]
    /\ UNCHANGED <<sessions, login_attempts, now, issued, revoked, input, threads>>

InitSummary ==
    /\ sessions = <<>>
    /\ login_attempts = [ip \in Origins |-> <<>>]
    /\ now = 0
    /\ issued = <<>>
    /\ revoked = {}
    /\ resp = NoResp
    /\ input \in Inputs
    /\ threads = [t \in Threads |-> Idle]

NextSummary ==
    categorize \/ percentages \/ summarize \/ fetch \/ attendances \/ grades

SpecSummary == InitSummary /\ [][NextSummary]_vars

-----------------------------------------------------------------------------
(***************************************************************************)
(* Properties of the session registry, the login handler and the rate      *)
(* limiter.                                                                *)
(***************************************************************************)
\* the last handler resolved a token through get_session
IsResolve(r) == r.calls = <<"resolve">>

\* the entries of an attempt log that lie within the window at time t
InWindow(log, t) == {i \in 1..Len(log) : t - log[i] < LOGIN_WINDOW}

\* how often call c occurs in a handler's trace of calls
Count(calls, c) == Cardinality({i \in 1..Len(calls) : calls[i] = c})

\* C1: the registry gets an entry only from a login whose handshake passed
\* every step (credentials accepted, grant 200, activation, profile), and the
\* entry holds that handshake's bundle; a login whose handshake fails at the
\* credentials step (invalid-login marker or status 401) is answered with the
\* invalid-credentials error and no token, and leaves the registry as it was.
C1_RegistryOnlyFromSuccess ==
    [][ /\ \A t \in DOMAIN sessions' :
              (t \notin DOMAIN sessions \/ sessions'[t] # sessions[t])
                  => /\ resp'.op = "login" /\ resp'.step = 0
                     /\ resp'.status = 200 /\ resp'.token = t
                     /\ sessions'[t].cookies \in Jars
                     /\ sessions'[t].user = resp'.user
        /\ (resp'.op = "login" /\ resp'.step > 0)
              => sessions' = sessions /\ resp'.token = "" /\ resp'.status = 401
        /\ (resp'.op = "login" /\ resp'.step = 3)
              => /\ sessions' = sessions
                 /\ resp'.error = "Nieprawidlowy login lub haslo"
                 /\ resp'.token = "" /\ resp'.user = None
      ]_vars

\* C1 witness: a login that failed at the credentials step has just been
\* answered while the registry holds a session of an earlier login
C1_Witness ==
    resp.op = "login" /\ resp.step = 3 /\ DOMAIN sessions # {}

\* C2: a resolve of an issued, never revoked token whose session is at most
\* the timeout old returns the session with the bundle and profile stored at
\* issue, whatever happened to other tokens
C2_ResolveWithinTimeout ==
    (/\ IsResolve(resp)
     /\ resp.token \in DOMAIN issued
     /\ resp.token \notin revoked
     /\ now - issued[resp.token].created <= SESSION_TIMEOUT)
        => /\ resp.session = issued[resp.token]
           /\ resp.status = 200
           /\ resp.user = issued[resp.token].user

\* C2 witness: a session exactly the timeout old was resolved after the other
\* token was revoked
C2_Witness ==
    /\ IsResolve(resp) /\ resp.session # None
    /\ now - resp.session.created = SESSION_TIMEOUT
    /\ \E t \in DOMAIN issued : t # resp.token /\ t \in revoked

\* C3 as stated: what resolve returns for an issued token that aged out
\* differs from what it returns for a token never issued
C3_Original ==
    \A t \in DOMAIN sessions :
        Expired(sessions[t].created, now)
            => get_session(sessions, t, now, now).ret
                  # get_session(sessions, BogusToken, now, now).ret

\* C3 as amended: resolve has one failure outcome.  For an issued token older
\* than the timeout and for a token never issued alike it returns None, never
\* a session, and the caller answers both "Session expired" (401).
C3_SingleFailureOutcome ==
    (/\ IsResolve(resp)
     /\ \/ resp.token \notin DOMAIN issued
        \/ now - issued[resp.token].created > SESSION_TIMEOUT)
        => /\ resp.session = None
           /\ resp.status = 401 /\ resp.error = "Session expired"
           /\ resp.token \notin DOMAIN sessions

\* C3 witness: an issued, never revoked token past the timeout was resolved
C3_Witness ==
    /\ IsResolve(resp)
    /\ resp.token \in DOMAIN issued /\ resp.token \notin revoked
    /\ now - issued[resp.token].created > SESSION_TIMEOUT

\* C4: a logout is always acknowledged; it removes the session of its token
\* and no other; revoking again changes nothing; and a later resolve of a
\* revoked token returns no session
C4_RevokeIdempotent ==
    [][ /\ resp'.op = "logout"
            => /\ resp'.status = 200 /\ resp'.error = "Wylogowano"
               /\ DOMAIN sessions' = DOMAIN sessions \ {resp'.token}
               /\ \A t \in DOMAIN sessions' : sessions'[t] = sessions[t]
               /\ Revoke(sessions', resp'.token) = sessions'
        /\ (IsResolve(resp') /\ resp'.token \in revoked)
            => resp'.session = None /\ resp'.status = 401
      ]_vars

\* C4 witness: a live session was revoked while another one stays
C4_Witness ==
    /\ resp.op = "logout"
    /\ resp.token \in DOMAIN issued
    /\ now - issued[resp.token].created <= SESSION_TIMEOUT
    /\ DOMAIN sessions # {}

\* C5 as stated: a login arriving when exactly max-attempts attempts of its
\* origin lie within the window is still allowed
C5_Original ==
    [][ (/\ resp'.op = "login"
         /\ Cardinality(InWindow(login_attempts[resp'.ip], now)) = MAX_LOGIN_ATTEMPTS)
            => resp'.status # 429 ]_vars

\* C5 as amended: allow is true while fewer than max-attempts attempts lie
\* within the window and false from the max-attempts-th on (a login is
\* answered "rate limited" exactly then), so no origin ever has more than
\* max-attempts attempts recorded within one window
C5_Threshold ==
    [][ /\ resp'.op = "login"
            => (resp'.status = 429
                  <=> Cardinality(InWindow(login_attempts[resp'.ip], now))
                          >= MAX_LOGIN_ATTEMPTS)
        /\ \A ip \in Origins :
              Cardinality(InWindow(login_attempts'[ip], now')) <= MAX_LOGIN_ATTEMPTS
      ]_vars

\* C5 witness: a login was refused with exactly max-attempts attempts recorded
C5_Witness ==
    /\ resp.op = "login" /\ resp.status = 429
    /\ Len(login_attempts[resp.ip]) = MAX_LOGIN_ATTEMPTS

\* C6: once a full window has passed since an origin's latest recorded
\* attempt, allow is true and a login is not refused; a refused login appends
\* nothing to the log, so it never moves that moment
C6_UnblockedAfterWindow ==
    [][ /\ \A ip \in Origins :
              (\A i \in 1..Len(login_attempts[ip]) :
                    now - login_attempts[ip][i] >= LOGIN_WINDOW)
                  => /\ check_rate_limit(login_attempts[ip], now).allowed
                     /\ (resp'.op = "login" /\ resp'.ip = ip) => resp'.status # 429
        /\ (resp'.op = "login" /\ resp'.status = 429)
              => /\ now' = now
                 /\ Len(login_attempts'[resp'.ip]) <= Len(login_attempts[resp'.ip])
                 /\ \A i \in 1..Len(login_attempts'[resp'.ip]) :
                       \E j \in 1..Len(login_attempts[resp'.ip]) :
                           login_attempts'[resp'.ip][i] = login_attempts[resp'.ip][j]
      ]_vars

\* C6 witness: an origin that had max-attempts attempts recorded has just
\* been let in again, all of them pruned
C6_Witness ==
    /\ resp.op = "login" /\ resp.status = 401
    /\ resp.pruned = MAX_LOGIN_ATTEMPTS
    /\ login_attempts[resp.ip] = <<now>>

\* C7: every login checks allow first; record is called exactly once when
\* the credential exchange is started and not at all for a rate-limited or
\* malformed request; the exchange is never started when allow is false
C7_CallDiscipline ==
    [][ resp'.op = "login"
          => LET calls == resp'.calls
                 log == login_attempts[resp'.ip]
                 started == Count(calls, "exchange") = 1
             IN  /\ calls # <<>> /\ calls[1] = "allow"
                 /\ Count(calls, "allow") = 1
                 /\ Count(calls, "exchange") <= 1
                 /\ Count(calls, "record") = (IF started THEN 1 ELSE 0)
                 /\ started <=> resp'.step >= 0
                 /\ resp'.status \in {429, 400} => ~started
                 /\ Len(login_attempts'[resp'.ip])
                       = Cardinality(InWindow(log, now)) + (IF started THEN 1 ELSE 0)
                 /\ Cardinality(InWindow(log, now)) >= MAX_LOGIN_ATTEMPTS => ~started
      ]_vars

\* C7 witness: a malformed request was answered after attempts were recorded
C7_Witness ==
    /\ resp.op = "login" /\ resp.status = 400
    /\ Len(login_attempts[resp.ip]) > 0


-----------------------------------------------------------------------------
(***************************************************************************)
(* Properties of the attendance summary.                                   *)
(***************************************************************************)
Categories == {"present", "absent", "late", "excused", "other"}

\* the category the precedence late > present > excused > absent > other
\* gives a descriptor d whose short code is read as lshort by the test for
\* late and as short by the other tests
ByPrecedence(lshort, short, d) ==
    LET late == \/ lshort = S_sp
                \/ StrContains(StrLower(DictGet(d, "name", <<>>)), S_spozn)
        present == DictGet(d, "isPresence", FALSE) \/ short = S_ob
        excused == short \in {S_u, S_nu, S_us}
        absent == short = S_nb
    IN  CASE late -> "late"
          [] ~late /\ present -> "present"
          [] ~late /\ ~present /\ excused -> "excused"
          [] ~late /\ ~present /\ ~excused /\ absent -> "absent"
          [] OTHER -> "other"

\* how many entries of the per-record list carry category c
CountCategory(entries, c) ==
    Cardinality({i \in 1..Len(entries) : entries[i].category = c})

\* every record of a summary is counted once, under the category of its entry
CountedOnce ==
    resp.op = "summarize" =>
        /\ Len(resp.data.attendances) = Len(input.atts)
        /\ \A c \in Categories :
              resp.data.stats[c] = CountCategory(resp.data.attendances, c)
        /\ \A i \in 1..Len(input.atts) :
              resp.data.attendances[i].category \in Categories

\* C8 as stated: the category of every descriptor is the one the precedence
\* late > present > excused > absent > other gives, the test for late blind
\* to case and the short code compared as it is with "ob", "u", "nu", "us"
\* and "nb"; every record of a summary is counted in exactly one category.
C8_Original ==
    /\ resp.op = "categorize" =>
          resp.data.category =
              ByPrecedence(StrLower(DictGet(input.att_type, "short", <<>>)),
                           DictGet(input.att_type, "short", <<>>),
                           input.att_type)
    /\ resp.op = "summarize" =>
          \A i \in 1..Len(input.atts) :
              LET d == AttType(input.atts[i], input.tables)
              IN  resp.data.attendances[i].category =
                      ByPrecedence(StrLower(DictGet(d, "short", <<>>)),
                                   DictGet(d, "short", <<>>), d)
    /\ CountedOnce

\* C8, amended: the category of every descriptor (the empty descriptor of an
\* unknown type id included) is the one the precedence late > present >
\* excused > absent > other gives when the short code is lower-cased before
\* it is compared; every record of a summary is counted in exactly one of
\* the five categories.
C8_Classification ==
    /\ resp.op = "categorize" =>
          /\ resp.data.category \in Categories
          /\ resp.data.category =
                ByPrecedence(StrLower(DictGet(input.att_type, "short", <<>>)),
                             StrLower(DictGet(input.att_type, "short", <<>>)),
                             input.att_type)
    /\ resp.op = "summarize" =>
          \A i \in 1..Len(input.atts) :
              LET d == AttType(input.atts[i], input.tables)
              IN  resp.data.attendances[i].category =
                      ByPrecedence(StrLower(DictGet(d, "short", <<>>)),
                                   StrLower(DictGet(d, "short", <<>>)), d)
    /\ CountedOnce

\* a type with the presence flag and the short code "sp" was classified late
C8_Witness ==
    /\ resp.op = "categorize"
    /\ input.att_type # NoType
    /\ input.att_type.isPresence
    /\ input.att_type.short = S_sp
    /\ input.att_type.name = <<>>
    /\ resp.data.category = "late"

\* p is round(n / d * 100): an integer of 0..100 nearest to 100 * n / d, the
\* even one of the two when 100 * n / d lies half way between them
IsRounded(p, n, d) ==
    /\ p \in 0..100
    /\ 2 * (p * d - 100 * n) <= d
    /\ 2 * (100 * n - p * d) <= d
    /\ (2 * (p * d - 100 * n) = d \/ 2 * (100 * n - p * d) = d) => p % 2 = 0

\* overall and subject are the two percentages of the counters st
ArePercentages(overall, subject, st) ==
    IF Total(st) = 0
    THEN overall = 0 /\ subject = 100
    ELSE /\ IsRounded(overall, st.present + st.late, Total(st))
         /\ subject = overall

ResolvedNames ==
    {SubjectName(input.atts[i], input.tables) : i \in 1..Len(input.atts)}

\* C10: the per-subject list holds every resolved subject name exactly once
\* and nothing else, its percentages never rise, and of two entries with the
\* same percentage the one with the smaller name comes first.
C10_SortedBreakdown ==
    resp.op = "summarize" =>
        LET L == resp.data.bySubject
        IN  /\ \A n \in ResolvedNames :
                  Cardinality({i \in 1..Len(L) : L[i].name = n}) = 1
            /\ \A i \in 1..Len(L) : L[i].name \in ResolvedNames
            /\ \A i, j \in 1..Len(L) :
                  i < j =>
                     /\ L[i].percentage >= L[j].percentage
                     /\ L[i].percentage = L[j].percentage
                           => StrLess(L[i].name, L[j].name)

\* three subjects: the best one has the greatest name and comes first, the
\* two others tie and follow in the order of their names
C10_Witness ==
    /\ resp.op = "summarize"
    /\ Len(resp.data.bySubject) = 3
    /\ resp.data.bySubject[1].percentage > resp.data.bySubject[2].percentage
    /\ resp.data.bySubject[2].percentage = resp.data.bySubject[3].percentage
    /\ StrLess(resp.data.bySubject[2].name, resp.data.bySubject[1].name)
    /\ StrLess(resp.data.bySubject[2].name, resp.data.bySubject[3].name)


-----------------------------------------------------------------------------
(***************************************************************************)
(* Properties of the fetches.                                              *)
(***************************************************************************)
\* the answer to the GET of the primary resource
Primary == input.ans.Attendances

HasCookies == input.cookies # EmptyJar

Is401(a) == ~a.exc /\ a.status = "401"

OtherStatus(a) == ~a.exc /\ a.status \notin {"200", "401"}

\* the request raised, or the body of a 200 did not parse
TransportFailure(a) == a.exc \/ (a.status = "200" /\ ~a.parses)

Parsed200(a) == ~a.exc /\ a.status = "200" /\ a.parses

\* C11 as stated: a 401 of the primary resource gives the session-expired
\* signal and no summary; every other failure of the primary fetch (another
\* status, a transport failure, a body without the list) gives no_data.
C11_Original ==
    (resp.op = "get_attendances" /\ HasCookies) =>
        /\ Is401(Primary) => resp.data = ErrorResult("session_expired")
        /\ (\/ OtherStatus(Primary)
            \/ Primary.exc
            \/ Parsed200(Primary) /\ Primary.body.keys \cap {"list", "error"} = {})
              => resp.data = ErrorResult("no_data")

\* C11, amended: a 401 of the primary resource gives the session-expired
\* signal and no summary; another status, and a body with neither the list
\* nor an "error" entry, give no_data; a transport failure gives an error
\* that carries the failure's detail; a body without the list and with an
\* "error" entry is returned as it is.  Without cookies the answer is no_data.
C11_FailureSignals ==
    resp.op = "get_attendances" =>
        /\ ~HasCookies => resp.data = ErrorResult("no_data")
        /\ HasCookies =>
              /\ Is401(Primary) => resp.data = ErrorResult("session_expired")
              /\ OtherStatus(Primary) => resp.data = ErrorResult("no_data")
              /\ TransportFailure(Primary) => resp.data = ErrorResult("exception")
              /\ (Parsed200(Primary) /\ "list" \notin Primary.body.keys) =>
                    resp.data = IF "error" \in Primary.body.keys
                                THEN ErrorResult(Primary.body.error)
                                ELSE ErrorResult("no_data")
        /\ resp.data.kind = "summary" =>
              HasCookies /\ Parsed200(Primary) /\ "list" \in Primary.body.keys

\* the GET of the primary resource raised and get_attendances gave the detail
C11_Witness ==
    /\ resp.op = "get_attendances"
    /\ HasCookies
    /\ Primary.exc
    /\ resp.data = ErrorResult("exception")

\* C12 as stated: with cookies, get_data gives the parsed body on a 200, the
\* session-expired error on a 401, and an error with a detail on every other
\* status and on every transport failure.
C12_Original ==
    (resp.op = "get_data" /\ HasCookies) =>
        /\ Parsed200(Primary) =>
              resp.data = DictData(Primary.body.keys, Primary.body.list,
                                   Primary.body.error)
        /\ Is401(Primary) => resp.data = ErrorData("session_expired")
        /\ (OtherStatus(Primary) \/ TransportFailure(Primary)) =>
              /\ resp.data.kind = "dict"
              /\ resp.data.keys = {"error"}
              /\ resp.data.error \notin {"", "session_expired"}

\* C12, amended: with cookies, get_data gives the parsed body on a 200, the
\* session-expired error on a 401, an error with the detail on a transport
\* failure, and None, without any detail, on every other status; there is
\* no other outcome.
C12_StatusMapping ==
    (resp.op = "get_data" /\ HasCookies) =>
        /\ Parsed200(Primary) =>
              resp.data = DictData(Primary.body.keys, Primary.body.list,
                                   Primary.body.error)
        /\ Is401(Primary) => resp.data = ErrorData("session_expired")
        /\ TransportFailure(Primary) => resp.data = ErrorData("exception")
        /\ OtherStatus(Primary) => resp.data = NoneData
        /\ Parsed200(Primary) \/ Is401(Primary) \/ TransportFailure(Primary)
              \/ OtherStatus(Primary)

\* a 500 answered with cookies: get_data gave None
C12_Witness ==
    /\ resp.op = "get_data"
    /\ HasCookies
    /\ Primary = StatusAnswer("500")
    /\ resp.data = NoneData


-----------------------------------------------------------------------------
(***************************************************************************)
(* Properties of the handshake.                                            *)
(***************************************************************************)
\* a login request that ran the handshake
RanHandshake == resp.op = "login" /\ Count(resp.calls, "exchange") = 1

\* the step whose request raised, 0 if none did before the handshake ended:
\* 1 initial GET, 2 credentials POST, 4 grant GET, 6 TokenInfo, 7 UserInfo,
\* 8 profile
RaisedStep(up) ==
    IF up.init = "exc" THEN 1
    ELSE IF up.postExc THEN 2
    ELSE IF up.postMarker \/ up.postStatus = "401" THEN 0
    ELSE IF up.grant = "exc" THEN 4
    ELSE IF up.grant # "200" THEN 0
    ELSE IF up.tokenInfo = "exc" THEN 6
    ELSE IF up.tokenInfo # "id" THEN 0
    ELSE IF up.userInfo = "exc" THEN 7
    ELSE IF up.userInfo # "200" THEN 0
    ELSE IF up.me = "exc" THEN 8
    ELSE 0

\* C13 as stated: an exception raised by the request of any step of the
\* handshake makes login fail with the exception's detail.
C13_Original ==
    (RanHandshake /\ RaisedStep(resp.up) # 0) =>
        resp.status = 401 /\ resp.error = "exception"

\* C13, amended: an exception raised by the initial GET, the credentials
\* POST or the grant GET makes login fail with the exception's detail; one
\* raised by an activation request makes it fail with "API activation
\* failed", one raised by the profile request with "Could not verify login".
C13_TransportErrors ==
    (RanHandshake /\ RaisedStep(resp.up) # 0) =>
        /\ resp.status = 401
        /\ resp.token = ""
        /\ RaisedStep(resp.up) \in {1, 2, 4} => resp.error = "exception"
        /\ RaisedStep(resp.up) \in {6, 7} => resp.error = "API activation failed"
        /\ RaisedStep(resp.up) = 8 => resp.error = "Could not verify login"

\* the UserInfo request raised and login failed with the activation's error
C13_Witness ==
    /\ RanHandshake
    /\ RaisedStep(resp.up) = 7
    /\ resp.status = 401
    /\ resp.error = "API activation failed"

\* the handshake came to the profile request
ReachedProfile == RanHandshake /\ resp.step \in {0, 8}

\* C14: a profile request that gives no body (exception, status other than
\* 200) or a body without the account record makes login fail with "Could
\* not verify login"; login succeeds only with the first name, last name and
\* login of the account record of the body.
C14_Verification ==
    ReachedProfile =>
        /\ resp.up.me # "account" =>
              resp.status = 401 /\ resp.error = "Could not verify login"
        /\ resp.status = 200 =>
              resp.up.me = "account" /\ resp.user = resp.up.account

\* the requests of the handshake in their order
HandshakeOrder ==
    << "GET Authorization", "POST Authorization", "GET Grant",
       "GET TokenInfo", "GET UserInfo", "GET Me" >>

\* how many requests a handshake issues that fails at a step (FailingStep)
RequestsUpTo(step) ==
    CASE step = 1 -> 1
      [] step \in {2, 3} -> 2
      [] step = 4 -> 3
      [] step = 6 -> 4
      [] step = 7 -> 5
      [] OTHER -> 6

\* C17: the requests of a handshake are an initial part of the fixed order;
\* a handshake that fails at a step ends with that step's error and has
\* issued the requests up to that step and none after it; login succeeds
\* only after all six requests, each step having passed.
C17_LinearHandshake ==
    RanHandshake =>
        /\ Len(resp.requests) \in 1..6
        /\ resp.requests = SubSeq(HandshakeOrder, 1, Len(resp.requests))
        /\ Len(resp.requests) = RequestsUpTo(resp.step)
        /\ resp.step # 0 => resp.status = 401
        /\ (resp.step = 3) <=> (resp.error = "Nieprawidlowy login lub haslo")
        /\ (resp.step = 4 /\ resp.up.grant # "exc") <=> (resp.error = "Grant failed")
        /\ (resp.step \in {6, 7}) <=> (resp.error = "API activation failed")
        /\ (resp.step = 8) <=> (resp.error = "Could not verify login")
        /\ resp.status = 200 =>
              /\ resp.step = 0
              /\ resp.requests = HandshakeOrder
              /\ resp.up.init = "ok" /\ ~resp.up.postExc
              /\ ~resp.up.postMarker /\ resp.up.postStatus = "200"
              /\ resp.up.grant = "200" /\ resp.up.tokenInfo = "id"
              /\ resp.up.userInfo = "200"
              /\ resp.up.me \in {"noMe", "account"}

\* a handshake that failed at TokenInfo: four requests, no UserInfo, no Me
C17_Witness ==
    /\ RanHandshake
    /\ resp.up.tokenInfo = "non200"
    /\ resp.error = "API activation failed"
    /\ resp.requests = SubSeq(HandshakeOrder, 1, 4)


-----------------------------------------------------------------------------
(***************************************************************************)
(* Properties of the composite fetchers and of the grades.                 *)
(***************************************************************************)
\* the primary resource of get_attendances was fetched with its list
PrimaryFetched == HasCookies /\ Parsed200(Primary) /\ "list" \in Primary.body.keys

\* whatever the supporting resources answer, a summary of the attendances is
\* produced once the primary resource was fetched; subjects that cannot be
\* resolved are labelled "Nieznany" and teachers that cannot are empty
AttendancesDegrade ==
    (resp.op = "get_attendances" /\ PrimaryFetched) =>
        /\ resp.data.kind = "summary"
        /\ resp.data.kind = "summary" =>
              \A i \in 1..Len(resp.data.summary.attendances) :
                  LET e == resp.data.summary.attendances[i]
                  IN  /\ (\/ input.ans.Subjects # GoodSupport.Subjects
                          \/ input.ans.Lessons # GoodSupport.Lessons)
                            => e.subject = S_Nieznany
                      /\ input.ans.Users # GoodSupport.Users => e.teacher = <<>>

\* whatever the supporting resources answer, a summary of the grades is
\* produced once the grades were fetched
GradesDegrade ==
    (/\ resp.op = "get_grades"
     /\ HasCookies
     /\ Parsed200(input.ans.Grades)
     /\ "list" \in input.ans.Grades.body.keys) => resp.data.kind = "summary"

\* C15: whatever the supporting resources answer (nothing, an error, a list
\* with an entry that lacks a key), no fetcher raises: a summary is produced
\* once the primary resource was fetched, with unresolved subjects labelled
\* "Nieznany" and unresolved teachers empty.
C15_FetchersDegrade == AttendancesDegrade /\ GradesDegrade

\* a summary of grades, and the raw grades it was made of
GradesFetched == resp.op = "get_grades" /\ resp.data.kind = "summary"

RawGrades == input.ans.Grades.body.list

\* the resolved subject name of the i-th raw grade
ResolvedGrade(i) ==
    LET subjects == get_subjects(get_data(input.cookies, input.ans.Subjects)).dict
    IN  IF RawGrades[i].Subject \in DOMAIN subjects
        THEN subjects[RawGrades[i].Subject]
        ELSE S_Nieznany

\* the places in the input of the grades of subject n
IndicesOf(n) == {i \in 1..Len(RawGrades) : ResolvedGrade(i) = n}

\* the k-th smallest of a set of numbers
Nth(S, k) == CHOOSE x \in S : Cardinality({y \in S : y < x}) = k - 1

\* a flag of a raw grade, unset when the grade does not have it
Flag(raw, f) == f \in DOMAIN raw /\ raw[f]

\* C16: every raw grade appears exactly once, in the list of its resolved
\* subject name; the lists keep the order of the input and the subjects the
\* order of their first grade; isFinal of an entry is set iff the final flag
\* or the final-proposition flag of the raw grade is, isSemester iff the
\* semester flag or the semester-proposition flag is.
C16_GradeSummary ==
    GradesFetched =>
        LET out == resp.data.summary
        IN  /\ \A i \in 1..Len(RawGrades) :
                  \E g \in 1..Len(out) : out[g].name = ResolvedGrade(i)
            /\ \A g, h \in 1..Len(out) :
                  g < h => /\ out[g].name # out[h].name
                           /\ Nth(IndicesOf(out[g].name), 1)
                                 < Nth(IndicesOf(out[h].name), 1)
            /\ \A g \in 1..Len(out) :
                  /\ Len(out[g].grades) > 0
                  /\ Len(out[g].grades) = Cardinality(IndicesOf(out[g].name))
                  /\ \A k \in 1..Len(out[g].grades) :
                        LET raw == RawGrades[Nth(IndicesOf(out[g].name), k)]
                            e == out[g].grades[k]
                        IN  /\ e.grade = raw.Grade
                            /\ e.isFinal <=> (Flag(raw, "IsFinal")
                                              \/ Flag(raw, "IsFinalProposition"))
                            /\ e.isSemester <=> (Flag(raw, "IsSemester")
                                                 \/ Flag(raw, "IsSemesterProposition"))

\* three grades of two subjects; the first is no final grade but a proposed
\* one and its entry is final; its subject comes first
C16_Witness ==
    /\ GradesFetched
    /\ Len(RawGrades) = 3
    /\ RawGrades[1] = FlaggedGrade(2, FALSE, TRUE, FALSE, FALSE)
    /\ Len(resp.data.summary) = 2
    /\ resp.data.summary[1].name = S_Matematyka
    /\ Len(resp.data.summary[1].grades) = 2
    /\ resp.data.summary[1].grades[1].isFinal
    /\ resp.data.summary[2].name = S_Fizyka


-----------------------------------------------------------------------------
(***************************************************************************)
(* Properties of concurrent requests.                                      *)
(***************************************************************************)
\* C18: under every interleaving of concurrent resolves, logins and logouts
\* no request fails by deleting a token that another request already
\* deleted (KeyError) or by iterating the registry while it changes
\* (RuntimeError); every request ends with one of its specified outcomes.
C18_ExclusiveSweep ==
    \A t \in Threads :
        /\ threads[t].outcome \notin {"KeyError", "RuntimeError"}
        /\ threads[t].pc = "done" =>
              threads[t].outcome \in {"session", "None", "ok"}

\* how often the timestamp s stands in a log
Occurrences(log, s) == Cardinality({i \in 1..Len(log) : log[i] = s})

\* no step drops from a log a timestamp that is still in the window
NoAttemptLost ==
    \A ip \in Origins :
        \A s \in {login_attempts[ip][i] : i \in 1..Len(login_attempts[ip])} :
            now' - s < LOGIN_WINDOW =>
                Occurrences(login_attempts'[ip], s)
                    >= Occurrences(login_attempts[ip], s)

\* the log of an origin holds at most max-attempts attempts of the window
WithinLimit ==
    \A ip \in Origins :
        Cardinality(InWindow(login_attempts[ip], now)) <= MAX_LOGIN_ATTEMPTS

\* C19: under every interleaving of concurrent login requests of one origin,
\* at most max-attempts requests reach the credential exchange within one
\* window (each of them stands in the log, which never holds more), and no
\* recorded attempt is lost: no step, a prune-and-reassign included, drops a
\* timestamp of the window that a request appended.
C19_OriginExclusion ==
    []WithinLimit /\ [][NoAttemptLost]_vars


-----------------------------------------------------------------------------
(***************************************************************************)
(* Frame of the resolve.                                                   *)
(***************************************************************************)
\* the step is a request of a handler that resolves a session
ResolveStep ==
    /\ resp'.op \in {"me", "attendances", "grades"}
    /\ Count(resp'.calls, "resolve") = 1

\* the step removes whom it must, and nobody else: a session older than the
\* timeout when the sweep reads the clock is gone, a session that is not
\* older than the timeout when the request ends is kept as it was
RemovesExpiredOnly ==
    /\ DOMAIN sessions' \subseteq DOMAIN sessions
    /\ \A k \in DOMAIN sessions :
          /\ Expired(sessions[k].created, now) => k \notin DOMAIN sessions'
          /\ ~Expired(sessions[k].created, now') =>
                k \in DOMAIN sessions' /\ sessions'[k] = sessions[k]
          /\ k \in DOMAIN sessions' => sessions'[k] = sessions[k]

\* no step changes the creation time of a session
NoRefresh ==
    \A k \in DOMAIN sessions \cap DOMAIN sessions' :
        sessions'[k].created = sessions[k].created

\* the session a request resolved is not older than the timeout
ResolvedInTime ==
    (ResolveStep /\ resp'.session # None) =>
        /\ ~Expired(resp'.session.created, now')
        /\ resp'.session = issued[resp'.token]

\* C20: a resolve changes the registry only by removing sessions older than
\* the timeout, and removes all of them (ages taken at the resolve's reading
\* of the clock); every session not older than the timeout keeps its token,
\* cookies, profile and creation time; no resolve, no data fetch and no
\* other step renews a creation time, so a session is resolved only until
\* the timeout after its issue, however often it was used.
C20_ResolveFrame ==
    [][/\ ResolveStep => RemovesExpiredOnly
       /\ NoRefresh
       /\ ResolvedInTime]_vars

\* a data fetch, after half a timeout, of a session used before: it resolved
\* with the creation time of the issue, and swept another session that had
\* timed out
C20_Witness ==
    /\ resp.op = "attendances"
    /\ resp.status = 200
    /\ now - resp.session.created > 0
    /\ resp.token \in DOMAIN sessions
    /\ sessions[resp.token] = issued[resp.token]
    /\ \E k \in DOMAIN issued \ (DOMAIN sessions \cup revoked) :
          Expired(issued[k].created, now)


-----------------------------------------------------------------------------
(***************************************************************************)
(* Conservation of the counters of the attendance summary.                 *)
(***************************************************************************)
\* a summary of attendances was made, of the list alone or by get_attendances
Summarized ==
    \/ resp.op = "summarize"
    \/ resp.op = "get_attendances" /\ resp.data.kind = "summary"

TheSummary == IF resp.op = "summarize" THEN resp.data ELSE resp.data.summary

\* the records the summary was made of
TheRecords == IF resp.op = "summarize" THEN input.atts ELSE Primary.body.list

\* the sum of the counter c over the per-subject entries
RECURSIVE SumOver(_, _)
SumOver(list, c) ==
    IF list = <<>> THEN 0 ELSE Head(list)[c] + SumOver(Tail(list), c)

\* how many entries of the per-record list have the subject and the category
Records(sm, name, c) ==
    Cardinality({i \in 1..Len(sm.attendances) :
                    /\ sm.attendances[i].subject = name
                    /\ sm.attendances[i].category = c})

\* late, present, present, absent, all of one subject
ExampleList ==
    << [Type |-> 3, Lesson |-> 10, AddedBy |-> 7],
       [Type |-> 1, Lesson |-> 10, AddedBy |-> 7],
       [Type |-> 1, Lesson |-> 10, AddedBy |-> 7],
       [Type |-> 2, Lesson |-> 10, AddedBy |-> 7] >>

\* C21: the five global counters sum to the number of records and to the
\* length of the per-record list; each of present, absent, late and excused
\* is, globally, the sum of that counter over the per-subject entries, and,
\* in an entry, the number of the subject's records of that category, so
\* that a record of category other changes no per-subject counter; the total
\* is present + absent + late + excused; the list late, present, present,
\* absent of one subject gives the counts 2, 1, 1, 0, 0, overall 75 and one
\* entry with 75.
C21_CounterConservation ==
    Summarized =>
        LET sm == TheSummary
            st == sm.stats
        IN  /\ st.present + st.absent + st.late + st.excused + st.other
                  = Len(TheRecords)
            /\ Len(sm.attendances) = Len(TheRecords)
            /\ \A c \in {"present", "absent", "late", "excused"} :
                  /\ st[c] = SumOver(sm.bySubject, c)
                  /\ \A i \in 1..Len(sm.bySubject) :
                        sm.bySubject[i][c] = Records(sm, sm.bySubject[i].name, c)
            /\ st.other = Cardinality({i \in 1..Len(sm.attendances) :
                                          sm.attendances[i].category = "other"})
            /\ sm.total = st.present + st.absent + st.late + st.excused
            /\ (resp.op = "summarize" /\ input.atts = ExampleList
                   /\ input.tables = FullTables) =>
                  /\ st = [present |-> 2, absent |-> 1, late |-> 1,
                           excused |-> 0, other |-> 0]
                  /\ sm.percentage = 75
                  /\ Len(sm.bySubject) = 1
                  /\ sm.bySubject[1].percentage = 75

\* a list of two subjects with a record of category other: the record is
\* counted globally and in no entry
C21_Witness ==
    /\ resp.op = "summarize"
    /\ Len(input.atts) = 4
    /\ resp.data.stats.other = 1
    /\ resp.data.total = 3
    /\ Len(resp.data.bySubject) = 2
    /\ SumOver(resp.data.bySubject, "present")
          + SumOver(resp.data.bySubject, "absent") = 3
====
